---- MODULE Spec2Model ----
(***************************************************************************)
(* A model of the NES emulator core: the 6502 CPU (nes/cpu.py), the PPU    *)
(* (nes/ppu.py), the controllers and APU stub, and the console loop.       *)
(*                                                                         *)
(* The emulator is single threaded.  Its code is sequential and mutates    *)
(* several objects in one call, so each method is written as an operator   *)
(* from a machine record m = [cpu, ppu, ctl, apu, h, fault] to the machine *)
(* after the call.  h holds observations only (counters the claims read).  *)
(* A Python exception is recorded in m.fault and ends the run.             *)
(***************************************************************************)
EXTENDS Integers, Sequences, FiniteSets, TLC

VARIABLES
    rom,    \* the cartridge: PRG code, vectors, CHR bytes, mirroring (immutable)
    cpu,    \* fields of nes.cpu.Cpu
    ppu,    \* fields of nes.ppu.Ppu
    ctl,    \* fields of nes.controllers.Controllers
    apu,    \* fields of nes.apu.Apu
    h,      \* observations of the run (not program state)
    fault   \* the exception that ended the run, or NoFault

vars == <<rom, cpu, ppu, ctl, apu, h, fault>>

-----------------------------------------------------------------------------
(* Program constants *)

COLUMNS == 340
VBLANK_START_ROW == 240
VBLANK_END_ROW == 260
TOTAL_ROWS == 262
NAMETABLE_A_VRAM_START == 0
NAMETABLE_B_VRAM_START == 1024
NAMETABLE_LAYOUT_HORIZONTAL ==
    <<NAMETABLE_A_VRAM_START, NAMETABLE_A_VRAM_START, NAMETABLE_B_VRAM_START, NAMETABLE_B_VRAM_START>>
NAMETABLE_LAYOUT_VERTICAL ==
    <<NAMETABLE_A_VRAM_START, NAMETABLE_B_VRAM_START, NAMETABLE_A_VRAM_START, NAMETABLE_B_VRAM_START>>
SPRITE_ZERO_HIT_NONE == <<TOTAL_ROWS + 1, COLUMNS>>
\* the size of one PRG chunk; the model's cartridges hold one chunk
PRG_CHUNK == 16384

NoFault == "none"
Byte == 0..255

-----------------------------------------------------------------------------
(* Bit operations on naturals (Python's &, |, ^ on non-negative ints) *)

RECURSIVE BitAnd(_, _)
BitAnd(x, y) ==
    IF x = 0 \/ y = 0 THEN 0
    ELSE (x % 2) * (y % 2) + 2 * BitAnd(x \div 2, y \div 2)

RECURSIVE BitOr(_, _)
BitOr(x, y) ==
    IF x = 0 THEN y ELSE IF y = 0 THEN x
    ELSE (IF x % 2 = 1 \/ y % 2 = 1 THEN 1 ELSE 0) + 2 * BitOr(x \div 2, y \div 2)

RECURSIVE BitXor(_, _)
BitXor(x, y) ==
    IF x = 0 THEN y ELSE IF y = 0 THEN x
    ELSE ((x + y) % 2) + 2 * BitXor(x \div 2, y \div 2)

\* bit k of x, as a boolean: bool(x & (1 << k))
Bit(x, k) == (x \div (2 ^ k)) % 2 = 1

\* Python int(b) for a bool b
BoolInt(b) == IF b THEN 1 ELSE 0

-----------------------------------------------------------------------------
(* Byte arrays.  A bytearray(n) starts all zero; the model keeps the        *)
(* non-zero cells only, as a function from their indices.                   *)

EmptyMem == [i \in {} |-> 0]

MemGet(mem, i) == IF i \in DOMAIN mem THEN mem[i] ELSE 0

MemSet(mem, i, v) ==
    IF v = 0
    THEN [j \in (DOMAIN mem) \ {i} |-> mem[j]]
    ELSE [j \in (DOMAIN mem) \cup {i} |-> IF j = i THEN v ELSE mem[j]]

-----------------------------------------------------------------------------
(* Exceptions *)

Raise(m, name) == IF m.fault = NoFault THEN [m EXCEPT !.fault = name] ELSE m

\* a call's result: the machine after it and the value it returned
RV(m, val) == [m |-> m, val |-> val]

-----------------------------------------------------------------------------
(* Cartridge: rom.prg is the code at the start of the 16 KiB PRG chunk, the  *)
(* three vectors sit in its last six bytes, every other PRG byte is $FF    *)

\* ($FF, an opcode the CPU does not implement.)

rom_prg_len == PRG_CHUNK

rom_prg(i) ==
    IF i < Len(rom.prg) THEN rom.prg[i + 1]
    ELSE IF i = PRG_CHUNK - 6 THEN rom.nmi % 256
    ELSE IF i = PRG_CHUNK - 5 THEN rom.nmi \div 256
    ELSE IF i = PRG_CHUNK - 4 THEN rom.reset % 256
    ELSE IF i = PRG_CHUNK - 3 THEN rom.reset \div 256
    ELSE IF i = PRG_CHUNK - 2 THEN rom.irq % 256
    ELSE IF i = PRG_CHUNK - 1 THEN rom.irq \div 256
    ELSE 255

rom_chr(i) == MemGet(rom.chr, i)

\* the vectors Cpu.__init__ caches: read16 of $FFFA, $FFFC, $FFFE
cpu_nmi == rom_prg((65530 - 32768) % rom_prg_len) + 256 * rom_prg((65531 - 32768) % rom_prg_len)
cpu_reset == rom_prg((65532 - 32768) % rom_prg_len) + 256 * rom_prg((65533 - 32768) % rom_prg_len)
cpu_irq == rom_prg((65534 - 32768) % rom_prg_len) + 256 * rom_prg((65535 - 32768) % rom_prg_len)

-----------------------------------------------------------------------------
(* PPU: sprite zero hit prediction (ppu.py, the _sprite_zero_hit_ functions  *)
(* and Ppu._calculate_sprite_zero_hit)                                       *)

\* chr_to_array / chr_to_stacked > 0: pixel (r, c) of 8x8 tile idx is opaque
chr_tiles_8x8_mask(idx, r, c) ==
    \/ Bit(rom_chr(16 * idx + r), 7 - c)
    \/ Bit(rom_chr(16 * idx + r + 8), 7 - c)

\* chr_to_stacked(tall=True): the 8x16 tile that OAM byte 1 = idx selects
chr_tiles_8x16_mask(idx, r, c) ==
    LET idx_in == 256 * (idx % 2) + (idx - (idx % 2))
    IN  IF r < 8 THEN chr_tiles_8x8_mask(idx_in, r, c)
        ELSE chr_tiles_8x8_mask(idx_in + 1, r - 8, c)

empty_tiles_8x8(idx) ==
    ~ \E r \in 0..7, c \in 0..7 : chr_tiles_8x8_mask(idx, r, c)

empty_tiles_8x16(idx) ==
    ~ \E r \in 0..15, c \in 0..7 : chr_tiles_8x16_mask(idx, r, c)

\* _sprite_zero_hit_load_sprite: [ok, tall, idx, flags, x, y]; ok = FALSE is
\* the (None, None, None) return
sprite_zero_hit_load_sprite(p) ==
    LET sprite_y == MemGet(p.oam, 0) + 1
        sprite_flags == MemGet(p.oam, 2)
        sprite_x == MemGet(p.oam, 3)
        tall == Bit(p.ppuctrl, 5)
        idx == IF tall THEN MemGet(p.oam, 1)
               ELSE IF Bit(p.ppuctrl, 3) THEN MemGet(p.oam, 1) + 256
               ELSE MemGet(p.oam, 1)
        none == [ok |-> FALSE, tall |-> tall, idx |-> idx, flags |-> sprite_flags,
                 x |-> sprite_x, y |-> sprite_y]
    IN  IF sprite_y >= 240 \/ sprite_x >= 255 THEN none
        ELSE IF (IF tall THEN empty_tiles_8x16(idx) ELSE empty_tiles_8x8(idx)) THEN none
        ELSE [none EXCEPT !.ok = TRUE]

\* the loaded sprite tile after np.flipud / np.fliplr, as a pixel predicate
sprite_tile_mask(s, r, c) ==
    LET height == IF s.tall THEN 16 ELSE 8
        rr == IF Bit(s.flags, 7) THEN height - 1 - r ELSE r
        cc == IF Bit(s.flags, 6) THEN 7 - c ELSE c
    IN  IF s.tall THEN chr_tiles_8x16_mask(s.idx, rr, cc)
        ELSE chr_tiles_8x8_mask(s.idx, rr, cc)

\* pick_b in _sprite_zero_hit_render_background_region, for the background
\* tile at (tile_x, tile_y)
pick_b(p, tile_x, tile_y) ==
    IF rom.vertical_mirroring
    THEN (IF tile_y >= 30 THEN ~Bit(p.ppuctrl, 1) ELSE Bit(p.ppuctrl, 1))
    ELSE (IF tile_x >= 32 THEN ~Bit(p.ppuctrl, 0) ELSE Bit(p.ppuctrl, 0))

\* _sprite_zero_hit_render_background_region: pixel (ry, rx) of bg_region
bg_region_mask(p, first_tile_x, first_tile_y, ry, rx) ==
    LET tile_y == first_tile_y + (ry \div 8)
        tile_x == first_tile_x + (rx \div 8)
        cell == 32 * (tile_y % 30) + (tile_x % 32)
        bg_tile_idx == MemGet(p.vram, (IF pick_b(p, tile_x, tile_y)
                                       THEN NAMETABLE_B_VRAM_START
                                       ELSE NAMETABLE_A_VRAM_START) + cell)
                       + (IF Bit(p.ppuctrl, 4) THEN 256 ELSE 0)
    IN  chr_tiles_8x8_mask(bg_tile_idx, ry % 8, rx % 8)

\* _sprite_zero_hit_find_hit on the loaded sprite s and the background region
\* that starts at tile (first_tile_x, first_tile_y): the pixels of the sprite
\* tile where sprite and background overlap, as <<y, x>> within the tile
sprite_tile_overlap(p, s, first_tile_x, first_tile_y) ==
    LET sprite_x_within_region == p.scroll_x + s.x - 8 * first_tile_x
        sprite_y_within_region == p.scroll_y + s.y - 8 * first_tile_y
        ignore_columns == IF BitAnd(p.ppumask, 6) # 6
                          THEN 8 - (s.x - sprite_x_within_region) ELSE 0
    IN  {rc \in (0..((IF s.tall THEN 16 ELSE 8) - 1)) \X (0..7) :
            /\ sprite_tile_mask(s, rc[1], rc[2])
            /\ bg_region_mask(p, first_tile_x, first_tile_y,
                              sprite_y_within_region + rc[1],
                              sprite_x_within_region + rc[2])
            /\ ~(rc[2] < ignore_columns)}

\* _unraveled_argmax of the overlap: its first pixel in row-major order; <<>>
\* is the (None, None) return of _sprite_zero_hit_find_hit
sprite_zero_hit_find_hit(hits) ==
    IF hits = {} THEN <<>>
    ELSE CHOOSE rc \in hits : \A o \in hits : 8 * rc[1] + rc[2] <= 8 * o[1] + o[2]

\* bg_region.any()
bg_region_any(p, s, first_tile_x, first_tile_y) ==
    \E ry \in 0..(IF s.tall THEN 23 ELSE 15), rx \in 0..15 :
        bg_region_mask(p, first_tile_x, first_tile_y, ry, rx)

\* a faulty end of _calculate_sprite_zero_hit that lets a hit at X = 255 stand
sprite_zero_hit_on_screen_allows_255(s, hit) ==
    IF hit = <<>> THEN SPRITE_ZERO_HIT_NONE
    ELSE IF s.x + hit[2] >= 256 \/ s.y + hit[1] >= 240 THEN SPRITE_ZERO_HIT_NONE
    ELSE <<s.y + hit[1], s.x + hit[2]>>

\* the end of Ppu._calculate_sprite_zero_hit: the hit relative to the screen,
\* and the bounds checks
sprite_zero_hit_on_screen(s, hit) ==
    IF hit = <<>> THEN SPRITE_ZERO_HIT_NONE
    ELSE IF s.x + hit[2] >= 256 \/ s.y + hit[1] >= 240 THEN SPRITE_ZERO_HIT_NONE
    ELSE IF s.x + hit[2] = 255 THEN SPRITE_ZERO_HIT_NONE
    ELSE <<s.y + hit[1], s.x + hit[2]>>

\* Ppu._calculate_sprite_zero_hit once sprite zero is loaded as s
sprite_zero_hit_of_sprite(p, s) ==
    LET bg_first_tile_x == (p.scroll_x + s.x) \div 8
        bg_first_tile_y == (p.scroll_y + s.y) \div 8
    IN  IF ~s.ok THEN SPRITE_ZERO_HIT_NONE
        ELSE IF ~bg_region_any(p, s, bg_first_tile_x, bg_first_tile_y)
        THEN SPRITE_ZERO_HIT_NONE
        ELSE sprite_zero_hit_on_screen(s, sprite_zero_hit_find_hit(
                 sprite_tile_overlap(p, s, bg_first_tile_x, bg_first_tile_y)))

\* Ppu._calculate_sprite_zero_hit
Ppu_calculate_sprite_zero_hit(p) ==
    IF BitAnd(p.ppumask, 24) # 24 THEN SPRITE_ZERO_HIT_NONE
    ELSE sprite_zero_hit_of_sprite(p, sprite_zero_hit_load_sprite(p))

-----------------------------------------------------------------------------
(* Observations.  h.cycles: the CPU cycles ticked so far; h.skips: the dots  *)
(* skipped at odd frames; h.frame: events of the frame in progress; h.done:  *)
(* those of the last completed frame; h.step: events of the last CPU step;   *)
(* h.pre: the components as they were before the last CPU step; h.shadow:    *)
(* one record per pushing instruction whose bytes are still on the stack;    *)
(* h.trail: the latest PPU port accesses; h.ops, h.ticks: the bus accesses   *)
(* and the waits of a bus-level run; h.act: what the last action was;        *)
(* h.last: the latest direct access, recorded also when the call raised;     *)
(* h.before: the direct access before it; h.twin: the second console of a    *)
(* run of two consoles side by side; h.run: where the run loop of the        *)
(* console is, and what its calls returned with.                             *)

\* sets: 0-to-1 transitions of PPUSTATUS bit 7; hits: 0-to-1 transitions of
\* PPUSTATUS bit 6; nmis: NMI services;
\* nmi_enabled: PPUCTRL bit 7 when the row-240 boundary was crossed
FrameObs0 == [valid |-> FALSE, sets |-> 0, hits |-> 0, nmis |-> 0, nmi_enabled |-> FALSE]

\* the six flags of CPU record c
Flags(c) == [n |-> c.n, v |-> c.v, d |-> c.d, i |-> c.i, z |-> c.z, c |-> c.c]

\* what one pushing instruction (or the NMI service) left on the stack: who
\* pushed, and A, the flags, PC and SP from before it
NoPush == [kind |-> "none", a |-> 0, f |-> <<>>, pc |-> 0, sp |-> 0]

\* h.last, the latest access of a run that drives one component directly: the
\* operation, its address and value, and the byte returned (-1: none, or the
\* call raised)
NoAccess == [op |-> "none", addr |-> 0, val |-> 0, ret |-> -1]

\* h.twin where there is one console only
NoTwin == <<>>

\* h.run where the run loop of the console is not followed
NoRun == <<>>

\* h.pad, the controller port as a run that drives it has used it: prev: bit 0
\* of the latest $4016 write; fresh: the latest action was a $4016 write with
\* bit 0 clear right after one with bit 0 set; latched: there was such a
\* write; s1, s2: the button states at the latest such write; n1, n2: the
\* reads of $4016 and $4017 since; writes, events: $4016 writes and button
\* events so far
PadObs0 == [prev |-> FALSE, fresh |-> FALSE, latched |-> FALSE, s1 |-> 0, s2 |-> 0,
            n1 |-> 0, n2 |-> 0, writes |-> 0, events |-> 0]

\* h.step.boundary, the latest mid-frame render boundary that _signal_render
\* published in the step (the render callback, where there is one, is called
\* at this point): the row up to which to render and the registers as they
\* were then
NoBoundary == [published |-> FALSE, row |-> -1, ppuctrl |-> 0, ppumask |-> 0,
               scroll_x |-> 0, scroll_y |-> 0]

\* opcode = -1: no instruction was fetched; value = -1: no operand was read
StepObs0 == [opcode |-> -1, value |-> -1, cycles |-> 0, nmi |-> FALSE,
             reads2002 |-> 0, vstart |-> FALSE, vend |-> FALSE, slept |-> FALSE,
             popped |-> NoPush, boundary |-> NoBoundary]

-----------------------------------------------------------------------------
(* PPU: clock and vblank (ppu.py, class Ppu)                                 *)

\* Ppu._signal_render(end_of_row_idx = self.row); the console builds the Ppu
\* without a render callback, so only _last_row_rendered changes
Ppu_signal_render(m) ==
    LET end_of_row_idx == m.ppu.row
        last == m.ppu.last_row_rendered          \* -1 is None
        boundary == [published |-> TRUE, row |-> end_of_row_idx,
                     ppuctrl |-> m.ppu.ppuctrl, ppumask |-> m.ppu.ppumask,
                     scroll_x |-> m.ppu.scroll_x, scroll_y |-> m.ppu.scroll_y]
    IN  IF last # -1 /\ ~(end_of_row_idx >= last) THEN Raise(m, "AssertionError")
        ELSE IF end_of_row_idx = last \/ end_of_row_idx >= VBLANK_END_ROW THEN m
        ELSE IF end_of_row_idx >= VBLANK_START_ROW
             THEN [m EXCEPT !.ppu.last_row_rendered = -1, !.h.step.boundary = boundary]
             ELSE [m EXCEPT !.ppu.last_row_rendered = end_of_row_idx,
                            !.h.step.boundary = boundary]

\* Cpu.vblank_start_callback
Cpu_vblank_start_callback(m) == [m EXCEPT !.cpu.vblank_needs_handling = TRUE]

\* Cpu.vblank_end_callback
Cpu_vblank_end_callback(m) == [m EXCEPT !.cpu.vblank_end_needs_handling = TRUE]

\* Ppu._vblank_start
Ppu_vblank_start(m) ==
    LET m1 == [m EXCEPT !.ppu.ppustatus = BitOr(@, 128),
                        !.ppu.vblank = TRUE,
                        !.ppu.nmi = IF Bit(m.ppu.ppuctrl, 7) THEN TRUE ELSE @,
                        !.h.frame.sets = IF Bit(m.ppu.ppustatus, 7) THEN @ ELSE @ + 1,
                        !.h.frame.nmi_enabled = Bit(m.ppu.ppuctrl, 7),
                        !.h.step.vstart = TRUE]
    IN  Cpu_vblank_start_callback(Ppu_signal_render(m1))

\* a faulty _vblank_end that leaves PPUSTATUS bit 7 as it is
Ppu_vblank_end_keeps_flag(m) ==
    LET m1 == [m EXCEPT !.ppu.ppustatus = BitAnd(@, 128),
                        !.ppu.vblank = FALSE,
                        !.ppu.nmi = FALSE,
                        !.h.step.vend = TRUE]
        m2 == Cpu_vblank_end_callback(m1)
    IN  [m2 EXCEPT !.ppu.sprite_zero_hit_loc = Ppu_calculate_sprite_zero_hit(m2.ppu)]

\* a faulty _vblank_end that leaves the NMI line as it is
Ppu_vblank_end_keeps_nmi(m) ==
    LET m1 == [m EXCEPT !.ppu.ppustatus = 0,
                        !.ppu.vblank = FALSE,
                        !.h.step.vend = TRUE]
        m2 == Cpu_vblank_end_callback(m1)
    IN  [m2 EXCEPT !.ppu.sprite_zero_hit_loc = Ppu_calculate_sprite_zero_hit(m2.ppu)]

\* Ppu._vblank_end
Ppu_vblank_end(m) ==
    LET m1 == [m EXCEPT !.ppu.ppustatus = 0,
                        !.ppu.vblank = FALSE,
                        !.ppu.nmi = FALSE,
                        !.h.step.vend = TRUE]
        m2 == Cpu_vblank_end_callback(m1)
    IN  [m2 EXCEPT !.ppu.sprite_zero_hit_loc = Ppu_calculate_sprite_zero_hit(m2.ppu)]

\* a faulty first half of _finish_row that sets the sprite zero hit flag one
\* row late
finish_row_events_hits_late(m) ==
    IF m.ppu.row < 240
    THEN IF m.ppu.row = m.ppu.sprite_zero_hit_loc[1] + 1
         THEN [m EXCEPT !.ppu.ppustatus = BitOr(@, 64),
                        !.h.frame.hits = IF Bit(m.ppu.ppustatus, 6) THEN @ ELSE @ + 1]
         ELSE m
    ELSE IF m.ppu.row = VBLANK_START_ROW THEN Ppu_vblank_start(m)
    ELSE IF m.ppu.row = VBLANK_END_ROW THEN Ppu_vblank_end(m)
    ELSE m

\* Ppu._finish_row, first half: what the end of row self.row brings
finish_row_events(m) ==
    IF m.ppu.row < 240
    THEN IF m.ppu.row = m.ppu.sprite_zero_hit_loc[1]
         THEN [m EXCEPT !.ppu.ppustatus = BitOr(@, 64),
                        !.h.frame.hits = IF Bit(m.ppu.ppustatus, 6) THEN @ ELSE @ + 1]
         ELSE m
    ELSE IF m.ppu.row = VBLANK_START_ROW THEN Ppu_vblank_start(m)
    ELSE IF m.ppu.row = VBLANK_END_ROW THEN Ppu_vblank_end(m)
    ELSE m

\* a faulty second half of _finish_row that adds the extra dot after every
\* frame
finish_row_advance_skips_always(m) ==
    IF (m.ppu.row + 1) % TOTAL_ROWS = 0
    THEN [m EXCEPT !.ppu.row = 0,
                   !.ppu.frame_count = @ + 1,
                   !.ppu.col = @ + 1,
                   !.ppu.odd_frame = ~@,
                   !.h.skips = @ + 1,
                   !.h.done = [m.h.frame EXCEPT !.valid = TRUE],
                   !.h.frame = FrameObs0]
    ELSE [m EXCEPT !.ppu.row = (@ + 1) % TOTAL_ROWS]

\* Ppu._finish_row, second half: the next row and, after the last row, the
\* next frame
finish_row_advance(m) ==
    IF (m.ppu.row + 1) % TOTAL_ROWS = 0
    THEN [m EXCEPT !.ppu.row = 0,
                   !.ppu.frame_count = @ + 1,
                   !.ppu.col = IF m.ppu.odd_frame THEN @ + 1 ELSE @,
                   !.ppu.odd_frame = ~@,
                   !.h.skips = IF m.ppu.odd_frame THEN @ + 1 ELSE @,
                   !.h.done = [m.h.frame EXCEPT !.valid = TRUE],
                   !.h.frame = FrameObs0]
    ELSE [m EXCEPT !.ppu.row = (@ + 1) % TOTAL_ROWS]

\* Ppu._finish_row
Ppu_finish_row(m) == finish_row_advance(finish_row_events(m))

\* the while loop of Ppu._tick_clock
RECURSIVE Ppu_tick_rows(_)
Ppu_tick_rows(m) ==
    IF m.ppu.col >= COLUMNS
    THEN Ppu_tick_rows(Ppu_finish_row([m EXCEPT !.ppu.col = @ - COLUMNS]))
    ELSE m

\* a faulty _tick_clock whose loop leaves a row that is exactly full
\* unfinished (col > COLUMNS for col >= COLUMNS)
RECURSIVE Ppu_tick_rows_late(_)
Ppu_tick_rows_late(m) ==
    IF m.ppu.col > COLUMNS
    THEN Ppu_tick_rows_late(Ppu_finish_row([m EXCEPT !.ppu.col = @ - COLUMNS]))
    ELSE m

Ppu_tick_clock_late(m, cycles) == Ppu_tick_rows_late([m EXCEPT !.ppu.col = @ + cycles])

\* Ppu._tick_clock
Ppu_tick_clock(m, cycles) == Ppu_tick_rows([m EXCEPT !.ppu.col = @ + cycles])

\* Ppu.tick_clock_fom_cpu
Ppu_tick_clock_fom_cpu(m, cpu_cycles) == Ppu_tick_clock(m, 3 * cpu_cycles)

\* the while loop of Ppu.tick_until_ppustatus_change: its condition, its
\* body, and the loop itself run for at most n rounds (split in halves to
\* keep the evaluation shallow); a loop still running after SleepFuel rounds
\* is reported as the fault "Unterminated"
SleepFuel == 2 * TOTAL_ROWS

\* a faulty loop condition that watches PPUSTATUS only
tick_until_cond_ignores_vblank(m, vblank_was, ppustatus_was) ==
    m.fault = NoFault /\ m.ppu.ppustatus = ppustatus_was

tick_until_cond(m, vblank_was, ppustatus_was) ==
    m.fault = NoFault /\ m.ppu.vblank = vblank_was /\ m.ppu.ppustatus = ppustatus_was

\* assert self.col <= 1
assert_col(m) == IF m.ppu.col <= 1 THEN m ELSE Raise(m, "AssertionError")

tick_until_body(m) == assert_col(Ppu_finish_row(m))

RECURSIVE tick_until_rounds(_, _, _, _)
tick_until_rounds(m, vblank_was, ppustatus_was, n) ==
    IF n = 0 \/ ~tick_until_cond(m, vblank_was, ppustatus_was) THEN m
    ELSE IF n = 1 THEN tick_until_body(m)
    ELSE tick_until_rounds(tick_until_rounds(m, vblank_was, ppustatus_was, n \div 2),
                           vblank_was, ppustatus_was, n - (n \div 2))

tick_until_ended(m, vblank_was, ppustatus_was) ==
    IF tick_until_cond(m, vblank_was, ppustatus_was) THEN Raise(m, "Unterminated") ELSE m

Ppu_tick_until_loop(m, vblank_was, ppustatus_was) ==
    tick_until_ended(tick_until_rounds(m, vblank_was, ppustatus_was, SleepFuel),
                     vblank_was, ppustatus_was)

\* Ppu.tick_until_ppustatus_change after the tick to the end of the line: m is
\* the machine at the call, m1 the machine after the tick
tick_until_after_line(m, m1) ==
    IF ~(m1.ppu.col <= 1) THEN Raise(m1, "AssertionError")
    ELSE IF ~(m1.ppu.row # m.ppu.row) THEN Raise(m1, "AssertionError")
    ELSE Ppu_tick_until_loop(m1, m.ppu.vblank, m.ppu.ppustatus)

\* Ppu.tick_until_ppustatus_change
Ppu_tick_until_ppustatus_change(m) ==
    IF ~(COLUMNS - m.ppu.col >= 0) THEN Raise(m, "AssertionError")
    ELSE tick_until_after_line(m, Ppu_tick_clock(m, COLUMNS - m.ppu.col))

-----------------------------------------------------------------------------
(* PPU: memory map and register interface (ppu.py, class Ppu)                *)

nametable_layout ==
    IF rom.vertical_mirroring THEN NAMETABLE_LAYOUT_VERTICAL ELSE NAMETABLE_LAYOUT_HORIZONTAL

\* Ppu.nametable_vram_addr
nametable_vram_addr(addr) ==
    LET low12 == addr % 4096
    IN  (low12 % 1024) + nametable_layout[(low12 \div 1024) + 1]

ppuaddr_increment(p) == IF Bit(p.ppuctrl, 2) THEN 32 ELSE 1

\* Ppu.write
Ppu_write(m, addr, value) ==
    IF addr < 8192 THEN Raise(m, "NotImplementedError")
    ELSE IF addr < 12288
         THEN [m EXCEPT !.ppu.vram = MemSet(@, nametable_vram_addr(addr), value)]
    ELSE IF addr < 16128 THEN m
    ELSE IF addr < 16384
         THEN LET idx0 == addr % 32
                  idx == IF idx0 >= 16 /\ idx0 % 4 = 0 THEN idx0 - 16 ELSE idx0
              IN  [m EXCEPT !.ppu.palette_ram = MemSet(@, idx, value)]
    ELSE Raise(m, "AssertionError")

\* Ppu.read
Ppu_read(m, addr) ==
    IF addr < 8192 THEN RV(m, rom_chr(addr % rom.chr_len))
    ELSE IF addr < 12288 THEN RV(m, MemGet(m.ppu.vram, nametable_vram_addr(addr)))
    ELSE IF addr < 16128 THEN RV(m, 0)
    ELSE IF addr < 16384 THEN RV(Raise(m, "NotImplementedError"), 0)
    ELSE RV(Raise(m, "AssertionError"), 0)

\* observation: the CPU's latest accesses to the PPU ports, oldest first, at
\* most three: [op, addr, val, w] with val the byte returned or written and w
\* the write toggle as the access found it
note_port(m, op, addr, val, w) ==
    LET t == Append(m.h.trail, [op |-> op, addr |-> addr, val |-> val, w |-> w])
    IN  [m EXCEPT !.h.trail = IF Len(t) > 3 THEN Tail(t) ELSE t]

\* the $2007 arm of Ppu.read_reg_from_cpu: r is what self.read(self.ppuaddr)
\* gave
ppudata_read(m, r) ==
    RV([r.m EXCEPT !.ppu.ppudata_read_buffer = r.val,
                   !.ppu.ppuaddr = @ + ppuaddr_increment(m.ppu)],
       m.ppu.ppudata_read_buffer)

\* observation of a port read that returns ret; w is the write toggle as the
\* read found it
noted_read(ret, addr, w) == RV(note_port(ret.m, "read", addr, ret.val, w), ret.val)

\* a faulty read_reg_from_cpu whose $2002 read leaves the write toggle alone
Ppu_read_reg_keeps_toggle(m, addr) ==
    noted_read(CASE addr = 8192 -> RV(m, m.ppu.ppuctrl)
                 [] addr = 8193 -> RV(m, m.ppu.ppumask)
                 [] addr = 8194 ->
                       RV([m EXCEPT !.ppu.ppustatus = BitAnd(@, 127),
                                    !.h.step.reads2002 = @ + 1],
                          m.ppu.ppustatus)
                 [] addr = 8199 -> ppudata_read(m, Ppu_read(m, m.ppu.ppuaddr))
                 [] OTHER -> RV(Raise(m, "NotImplementedError"), 0),
               addr, m.ppu.write_latch)

\* Ppu.read_reg_from_cpu, addr in $2000..$2007
Ppu_read_reg_from_cpu(m, addr) ==
    noted_read(CASE addr = 8192 -> RV(m, m.ppu.ppuctrl)
                 [] addr = 8193 -> RV(m, m.ppu.ppumask)
                 [] addr = 8194 ->
                       RV([m EXCEPT !.ppu.ppustatus = BitAnd(@, 127),
                                    !.ppu.write_latch = FALSE,
                                    !.h.step.reads2002 = @ + 1],
                          m.ppu.ppustatus)
                 [] addr = 8199 -> ppudata_read(m, Ppu_read(m, m.ppu.ppuaddr))
                 [] OTHER -> RV(Raise(m, "NotImplementedError"), 0),
               addr, m.ppu.write_latch)

\* rendering in Ppu.write_reg_from_cpu
rendering(p) == (~p.vblank) /\ BitAnd(p.ppumask, 24) # 0

\* a faulty PPUSCROLL arm that leaves the write toggle alone
ppuscroll_write_keeps_toggle(m, value) ==
    IF ~m.ppu.write_latch
    THEN [m EXCEPT !.ppu.scroll_x = value]
    ELSE [m EXCEPT !.ppu.scroll_y = value]

\* the PPUSCROLL arm of Ppu.write_reg_from_cpu after its _signal_render
ppuscroll_write(m, value) ==
    IF ~m.ppu.write_latch
    THEN [m EXCEPT !.ppu.scroll_x = value, !.ppu.write_latch = ~@]
    ELSE [m EXCEPT !.ppu.scroll_y = value, !.ppu.write_latch = ~@]

\* the match statement of Ppu.write_reg_from_cpu: [m, affected], the machine
\* after it and sprite_zero_affected
write_reg_match(m, addr, value) ==
    CASE addr = 8192 ->
            IF rendering(m.ppu) /\ BitAnd(BitXor(m.ppu.ppuctrl, value), 123) # 0
            THEN [m |-> [Ppu_signal_render(m) EXCEPT !.ppu.ppuctrl = value],
                  affected |-> TRUE]
            ELSE [m |-> [m EXCEPT !.ppu.ppuctrl = value], affected |-> FALSE]
      [] addr = 8193 ->
            IF rendering(m.ppu) /\ m.ppu.ppumask # value
            THEN [m |-> [Ppu_signal_render(m) EXCEPT !.ppu.ppumask = value],
                  affected |-> TRUE]
            ELSE [m |-> [m EXCEPT !.ppu.ppumask = value], affected |-> FALSE]
      [] addr = 8195 ->
            IF rendering(m.ppu)
            THEN [m |-> Raise(m, "NotImplementedError"), affected |-> FALSE]
            ELSE [m |-> [m EXCEPT !.ppu.oamaddr = value], affected |-> FALSE]
      [] addr = 8196 ->
            [m |-> Raise(m, "NotImplementedError"), affected |-> FALSE]
      [] addr = 8197 ->
            [m |-> ppuscroll_write(IF rendering(m.ppu) THEN Ppu_signal_render(m) ELSE m,
                                   value),
             affected |-> rendering(m.ppu)]
      [] addr = 8198 ->
            [m |-> IF ~m.ppu.write_latch
                   THEN [m EXCEPT !.ppu.ppuaddr =
                                      BitOr(BitAnd(value, 63) * 256, BitAnd(@, 255)),
                                  !.ppu.write_latch = ~@]
                   ELSE [m EXCEPT !.ppu.ppuaddr = BitOr(BitAnd(@, 65280), value),
                                  !.ppu.write_latch = ~@],
             affected |-> FALSE]
      [] addr = 8199 ->
            IF rendering(m.ppu)
            THEN [m |-> Raise(m, "NotImplementedError"), affected |-> FALSE]
            ELSE [m |-> [Ppu_write(m, m.ppu.ppuaddr, value)
                            EXCEPT !.ppu.ppuaddr = @ + ppuaddr_increment(m.ppu)],
                  affected |-> FALSE]
      [] OTHER -> [m |-> Raise(m, "NotImplementedError"), affected |-> FALSE]

\* a faulty end of write_reg_from_cpu that never updates the sprite zero hit
\* location
write_reg_keeps_sprite_zero(m, w) == w.m

\* the end of Ppu.write_reg_from_cpu: m is the machine at the call, w what the
\* match statement left
write_reg_sprite_zero(m, w) ==
    IF rendering(m.ppu) /\ w.affected /\ ~Bit(w.m.ppu.ppustatus, 6)
    THEN [w.m EXCEPT !.ppu.sprite_zero_hit_loc = Ppu_calculate_sprite_zero_hit(w.m.ppu)]
    ELSE w.m

\* Ppu.write_reg_from_cpu, addr in $2000..$2007
Ppu_write_reg_from_cpu(m, addr, value) ==
    note_port(write_reg_sprite_zero(m, write_reg_match(m, addr, value)),
              "write", addr, value, m.ppu.write_latch)

\* Ppu.oam_dma; data is the 256 bytes copied, as a byte array
Ppu_oam_dma(m, data) == [m EXCEPT !.ppu.oam = data]

-----------------------------------------------------------------------------
(* Controllers (controllers.py) and APU stub (apu.py)                        *)

\* Controllers.set_button; button is the value of the Button enum, a = 0,
\* b = 1, select = 2, start = 3, up = 4, down = 5, left = 6, right = 7
set_button(m, button, pressed, player) ==
    LET bit_mask == 2 ^ button
    IN  IF player = 1
        THEN [m EXCEPT !.ctl.controller_1_state =
                           IF pressed THEN BitOr(@, bit_mask) ELSE BitAnd(@, 255 - bit_mask)]
        ELSE IF player = 2
        THEN [m EXCEPT !.ctl.controller_2_state =
                           IF pressed THEN BitOr(@, bit_mask) ELSE BitAnd(@, 255 - bit_mask)]
        ELSE Raise(m, "ValueError")

\* Controllers.write_register_4016_from_cpu
write_register_4016_from_cpu(m, value) ==
    LET out0_new == Bit(value, 0)
        latch == m.ctl.out0 /\ ~out0_new
    IN  [m EXCEPT !.ctl.controller_1_shift_register =
                        IF latch THEN m.ctl.controller_1_state ELSE @,
                  !.ctl.controller_2_shift_register =
                        IF latch THEN m.ctl.controller_2_state ELSE @,
                  !.ctl.out0 = out0_new]

\* a faulty read that shifts a zero into bit 7
read_register_shifts_zero(m, addr) ==
    IF addr = 16406
    THEN RV([m EXCEPT !.ctl.controller_1_shift_register = @ \div 2],
            m.ctl.controller_1_shift_register % 2)
    ELSE IF addr = 16407
    THEN RV([m EXCEPT !.ctl.controller_2_shift_register = @ \div 2],
            m.ctl.controller_2_shift_register % 2)
    ELSE RV(Raise(m, "ValueError"), 0)

\* Controllers.read_register_from_cpu
read_register_from_cpu(m, addr) ==
    IF addr = 16406
    THEN RV([m EXCEPT !.ctl.controller_1_shift_register = BitOr(@ \div 2, 128)],
            m.ctl.controller_1_shift_register % 2)
    ELSE IF addr = 16407
    THEN RV([m EXCEPT !.ctl.controller_2_shift_register = BitOr(@ \div 2, 128)],
            m.ctl.controller_2_shift_register % 2)
    ELSE RV(Raise(m, "ValueError"), 0)

\* Apu.read_reg_from_cpu: every path raises
Apu_read_reg_from_cpu(m, addr) ==
    IF addr = 16405 THEN RV(Raise(m, "NotImplementedError"), 0)
    ELSE RV(Raise(m, "Exception"), 0)

\* Apu.write_reg_from_cpu
Apu_write_reg_from_cpu(m, addr, value) ==
    IF addr = 16407 /\ ~Bit(value, 6) THEN Raise(m, "NotImplementedError")
    ELSE [m EXCEPT !.apu.registers = MemSet(@, addr - 16384, value)]

-----------------------------------------------------------------------------
(* CPU: bus, stack, clock (cpu.py, class Cpu)                                *)

\* _signed
signed(val) == IF val < 128 THEN val ELSE val - 256

\* the sr property: N V 1 - D I Z C
sr(c) ==
    128 * BoolInt(c.n) + 64 * BoolInt(c.v) + 32 + 8 * BoolInt(c.d)
        + 4 * BoolInt(c.i) + 2 * BoolInt(c.z) + BoolInt(c.c)

\* the sr setter
set_sr(m, val) ==
    [m EXCEPT !.cpu.n = Bit(val, 7), !.cpu.v = Bit(val, 6), !.cpu.d = Bit(val, 3),
              !.cpu.i = Bit(val, 2), !.cpu.z = Bit(val, 1), !.cpu.c = Bit(val, 0)]

\* Cpu.read
Cpu_read(m, addr) ==
    IF ~(0 <= addr /\ addr < 65536) THEN RV(Raise(m, "AssertionError"), 0)
    ELSE IF addr < 8192 THEN RV(m, MemGet(m.cpu.ram, addr % 2048))
    ELSE IF addr < 16384 THEN Ppu_read_reg_from_cpu(m, 8192 + (addr % 8))
    ELSE IF addr = 16406 \/ addr = 16407 THEN read_register_from_cpu(m, addr)
    ELSE IF addr < 16416 THEN Apu_read_reg_from_cpu(m, addr)
    ELSE IF addr < 32768 THEN RV(m, 0)
    ELSE RV(m, rom_prg((addr - 32768) % rom_prg_len))

\* the return of Cpu.read16: low is the low byte, high what the read of the
\* high byte gave
read16_join(low, high) == RV(high.m, high.val * 256 + low)

\* Cpu.read16 once the read of the low byte gave low
read16_high(low, addr) == read16_join(low.val, Cpu_read(low.m, addr))

\* Cpu.read16
Cpu_read16(m, addr) == read16_high(Cpu_read(m, addr), addr + 1)

\* Cpu._tick_clock
Cpu_tick_clock(m, cycles) ==
    Ppu_tick_clock_fom_cpu([m EXCEPT !.cpu.clock = @ + cycles,
                                     !.h.cycles = @ + cycles,
                                     !.h.step.cycles = @ + cycles],
                           cycles)

\* Cpu.oam_dma
Cpu_oam_dma(m, page) ==
    IF page < 32
    THEN LET start == (page * 256) % 2048
             data == [k \in {j \in 0..255 : MemGet(m.cpu.ram, start + j) # 0}
                        |-> MemGet(m.cpu.ram, start + k)]
         IN  Cpu_tick_clock(Ppu_oam_dma(m, data), 513)
    ELSE Raise(m, "NotImplementedError")

\* Cpu.write
Cpu_write(m, addr, val) ==
    IF ~(0 <= addr /\ addr < 65536) THEN Raise(m, "AssertionError")
    ELSE
    LET m1 == [m EXCEPT !.cpu.branch_loop_cache = <<>>]
    IN  IF addr = 16404 THEN Cpu_oam_dma(m1, val)
        ELSE IF addr = 16406 THEN write_register_4016_from_cpu(m1, val)
        ELSE IF addr < 8192 THEN [m1 EXCEPT !.cpu.ram = MemSet(@, addr % 2048, val)]
        ELSE IF addr < 16384 THEN Ppu_write_reg_from_cpu(m1, 8192 + (addr % 8), val)
        ELSE IF addr < 16416 THEN Apu_write_reg_from_cpu(m1, addr, val)
        ELSE Raise(m1, "NotImplementedError")

\* Cpu.push
push(m, value) ==
    [m EXCEPT !.cpu.ram = MemSet(@, 256 + m.cpu.sp, value),
              !.cpu.sp = (m.cpu.sp - 1) % 256]

\* Cpu.push16
push16(m, value) ==
    LET high == (value % 65536) \div 256
        low == value % 256
    IN  push(push(m, high), low)

\* a faulty pull that does not wrap SP from $FF to $00
pull_without_wrap(m) ==
    LET sp1 == m.cpu.sp + 1
    IN  RV([m EXCEPT !.cpu.sp = sp1], MemGet(m.cpu.ram, 256 + sp1))

\* Cpu.pull
pull(m) ==
    LET sp1 == (m.cpu.sp + 1) % 256
    IN  RV([m EXCEPT !.cpu.sp = sp1], MemGet(m.cpu.ram, 256 + sp1))

\* the return of Cpu.pull16: low is the low byte, high what the second pull gave
pull16_join(low, high) == RV(high.m, 256 * high.val + low)

\* Cpu.pull16 once the first pull gave low
pull16_high(low) == pull16_join(low.val, pull(low.m))

\* Cpu.pull16
pull16(m) == pull16_high(pull(m))

-----------------------------------------------------------------------------
(* CPU: addressing modes (cpu.py, the Cpu._addr_ methods).  Each is a chain  *)
(* of steps on a call's result r = [m, val]: the machine so far and the      *)
(* byte or address in hand                                                   *)

IncPc(m, n) == [m EXCEPT !.cpu.pc = @ + n]

\* self.pc += n after the read that gave r
then_inc_pc(r, n) == RV(IncPc(r.m, n), r.val)

\* self.read(addr) / self.read16(addr) / self.ram[addr] of the address in hand
then_read(r) == Cpu_read(r.m, r.val)
then_read16(r) == Cpu_read16(r.m, r.val)
then_ram(r) == RV(r.m, MemGet(r.m.cpu.ram, r.val))

\* (addr + self.x) & 0xFF and (addr + self.y) & 0xFF
then_add_x_zp(r) == RV(r.m, (r.val + r.m.cpu.x) % 256)
then_add_y_zp(r) == RV(r.m, (r.val + r.m.cpu.y) % 256)

\* addr += self.x and addr += self.y, without wrapping to 16 bits
then_add_x(r) == RV(r.m, r.val + r.m.cpu.x)
then_add_y(r) == RV(r.m, r.val + r.m.cpu.y)

\* _signed(offset)
then_signed(r) == RV(r.m, signed(r.val))

addr_rel(m) == then_signed(then_inc_pc(Cpu_read(m, m.cpu.pc), 1))

addr_immediate(m) == then_inc_pc(Cpu_read(m, m.cpu.pc), 1)

addr_zeropage_addr(m) == then_inc_pc(Cpu_read(m, m.cpu.pc), 1)

addr_zeropage_val(m) == then_read(addr_zeropage_addr(m))

addr_zeropage_x_addr(m) == then_add_x_zp(then_inc_pc(Cpu_read(m, m.cpu.pc), 1))

\* reads self.ram directly
addr_zeropage_x_val(m) == then_ram(addr_zeropage_x_addr(m))

addr_zeropage_y_addr(m) == then_add_y_zp(then_inc_pc(Cpu_read(m, m.cpu.pc), 1))

\* reads self.ram directly
addr_zeropage_y_val(m) == then_ram(addr_zeropage_y_addr(m))

addr_absolute_addr(m) == then_inc_pc(Cpu_read16(m, m.cpu.pc), 2)

addr_absolute_val(m) == then_read(addr_absolute_addr(m))

addr_absolute_x_addr(m) == then_add_x(then_inc_pc(Cpu_read16(m, m.cpu.pc), 2))

addr_absolute_x_val(m) == then_read(addr_absolute_x_addr(m))

addr_absolute_y_addr(m) == then_add_y(then_inc_pc(Cpu_read16(m, m.cpu.pc), 2))

addr_absolute_y_val(m) == then_read(addr_absolute_y_addr(m))

addr_indirect(m) == then_read16(then_inc_pc(Cpu_read16(m, m.cpu.pc), 2))

addr_indirect_x_addr(m) ==
    then_read16(then_add_x_zp(then_inc_pc(Cpu_read(m, m.cpu.pc), 1)))

addr_indirect_x_val(m) == then_read(addr_indirect_x_addr(m))

addr_indirect_y_addr(m) ==
    then_add_y(then_read16(then_inc_pc(Cpu_read(m, m.cpu.pc), 1)))

addr_indirect_y_val(m) == then_read(addr_indirect_y_addr(m))

\* the addressing function that decode names for the opcode
addr_call(m, name) ==
    CASE name = "rel" -> addr_rel(m)
      [] name = "immediate" -> addr_immediate(m)
      [] name = "zeropage_addr" -> addr_zeropage_addr(m)
      [] name = "zeropage_val" -> addr_zeropage_val(m)
      [] name = "zeropage_x_addr" -> addr_zeropage_x_addr(m)
      [] name = "zeropage_x_val" -> addr_zeropage_x_val(m)
      [] name = "zeropage_y_addr" -> addr_zeropage_y_addr(m)
      [] name = "zeropage_y_val" -> addr_zeropage_y_val(m)
      [] name = "absolute_addr" -> addr_absolute_addr(m)
      [] name = "absolute_val" -> addr_absolute_val(m)
      [] name = "absolute_x_addr" -> addr_absolute_x_addr(m)
      [] name = "absolute_x_val" -> addr_absolute_x_val(m)
      [] name = "absolute_y_addr" -> addr_absolute_y_addr(m)
      [] name = "absolute_y_val" -> addr_absolute_y_val(m)
      [] name = "indirect" -> addr_indirect(m)
      [] name = "indirect_x_addr" -> addr_indirect_x_addr(m)
      [] name = "indirect_x_val" -> addr_indirect_x_val(m)
      [] name = "indirect_y_addr" -> addr_indirect_y_addr(m)
      [] name = "indirect_y_val" -> addr_indirect_y_val(m)
      [] OTHER -> RV(m, 0)

-----------------------------------------------------------------------------
(* CPU: instruction decoding (cpu.py, the match statement of                 *)
(* Cpu.process_instruction)                                                  *)

\* The (mnemonic, addressing function, cycles) that the match statement of
\* Cpu.process_instruction gives each opcode; "-" is no addressing function.
\* CPX and CPY leave cycles at its initial 0.
decode(opcode) ==
    CASE opcode =   0 -> [mn |-> "BRK", addr |-> "-", cycles |-> 7]   \* $00
      [] opcode =   1 -> [mn |-> "ORA", addr |-> "indirect_x_val", cycles |-> 6]   \* $01
      [] opcode =   5 -> [mn |-> "ORA", addr |-> "zeropage_val", cycles |-> 3]   \* $05
      [] opcode =   6 -> [mn |-> "ASL", addr |-> "zeropage_addr", cycles |-> 5]   \* $06
      [] opcode =   8 -> [mn |-> "PHP", addr |-> "-", cycles |-> 3]   \* $08
      [] opcode =   9 -> [mn |-> "ORA", addr |-> "immediate", cycles |-> 2]   \* $09
      [] opcode =  10 -> [mn |-> "ASL", addr |-> "-", cycles |-> 2]   \* $0A
      [] opcode =  13 -> [mn |-> "ORA", addr |-> "absolute_val", cycles |-> 4]   \* $0D
      [] opcode =  14 -> [mn |-> "ASL", addr |-> "absolute_addr", cycles |-> 6]   \* $0E
      [] opcode =  16 -> [mn |-> "BPL", addr |-> "rel", cycles |-> 2]   \* $10
      [] opcode =  17 -> [mn |-> "ORA", addr |-> "indirect_y_val", cycles |-> 5]   \* $11
      [] opcode =  21 -> [mn |-> "ORA", addr |-> "zeropage_x_val", cycles |-> 4]   \* $15
      [] opcode =  22 -> [mn |-> "ASL", addr |-> "zeropage_x_addr", cycles |-> 6]   \* $16
      [] opcode =  24 -> [mn |-> "CLC", addr |-> "-", cycles |-> 2]   \* $18
      [] opcode =  25 -> [mn |-> "ORA", addr |-> "absolute_y_val", cycles |-> 4]   \* $19
      [] opcode =  29 -> [mn |-> "ORA", addr |-> "absolute_x_val", cycles |-> 4]   \* $1D
      [] opcode =  30 -> [mn |-> "ASL", addr |-> "absolute_x_addr", cycles |-> 7]   \* $1E
      [] opcode =  32 -> [mn |-> "JSR", addr |-> "-", cycles |-> 6]   \* $20
      [] opcode =  33 -> [mn |-> "AND", addr |-> "indirect_x_val", cycles |-> 6]   \* $21
      [] opcode =  36 -> [mn |-> "BIT", addr |-> "zeropage_val", cycles |-> 3]   \* $24
      [] opcode =  37 -> [mn |-> "AND", addr |-> "zeropage_val", cycles |-> 3]   \* $25
      [] opcode =  38 -> [mn |-> "ROL", addr |-> "zeropage_addr", cycles |-> 5]   \* $26
      [] opcode =  40 -> [mn |-> "PLP", addr |-> "-", cycles |-> 4]   \* $28
      [] opcode =  41 -> [mn |-> "AND", addr |-> "immediate", cycles |-> 2]   \* $29
      [] opcode =  42 -> [mn |-> "ROL", addr |-> "-", cycles |-> 2]   \* $2A
      [] opcode =  44 -> [mn |-> "BIT", addr |-> "absolute_val", cycles |-> 4]   \* $2C
      [] opcode =  45 -> [mn |-> "AND", addr |-> "absolute_val", cycles |-> 4]   \* $2D
      [] opcode =  46 -> [mn |-> "ROL", addr |-> "absolute_addr", cycles |-> 6]   \* $2E
      [] opcode =  48 -> [mn |-> "BMI", addr |-> "rel", cycles |-> 2]   \* $30
      [] opcode =  49 -> [mn |-> "AND", addr |-> "indirect_y_val", cycles |-> 5]   \* $31
      [] opcode =  53 -> [mn |-> "AND", addr |-> "zeropage_x_val", cycles |-> 4]   \* $35
      [] opcode =  54 -> [mn |-> "ROL", addr |-> "zeropage_x_addr", cycles |-> 6]   \* $36
      [] opcode =  56 -> [mn |-> "SEC", addr |-> "-", cycles |-> 2]   \* $38
      [] opcode =  57 -> [mn |-> "AND", addr |-> "absolute_y_val", cycles |-> 4]   \* $39
      [] opcode =  61 -> [mn |-> "AND", addr |-> "absolute_x_val", cycles |-> 4]   \* $3D
      [] opcode =  62 -> [mn |-> "ROL", addr |-> "absolute_x_addr", cycles |-> 7]   \* $3E
      [] opcode =  64 -> [mn |-> "RTI", addr |-> "-", cycles |-> 6]   \* $40
      [] opcode =  65 -> [mn |-> "EOR", addr |-> "indirect_x_val", cycles |-> 6]   \* $41
      [] opcode =  69 -> [mn |-> "EOR", addr |-> "zeropage_val", cycles |-> 3]   \* $45
      [] opcode =  70 -> [mn |-> "LSR", addr |-> "zeropage_addr", cycles |-> 5]   \* $46
      [] opcode =  72 -> [mn |-> "PHA", addr |-> "-", cycles |-> 3]   \* $48
      [] opcode =  73 -> [mn |-> "EOR", addr |-> "immediate", cycles |-> 2]   \* $49
      [] opcode =  74 -> [mn |-> "LSR", addr |-> "-", cycles |-> 2]   \* $4A
      [] opcode =  76 -> [mn |-> "JMP", addr |-> "-", cycles |-> 3]   \* $4C
      [] opcode =  77 -> [mn |-> "EOR", addr |-> "absolute_val", cycles |-> 4]   \* $4D
      [] opcode =  78 -> [mn |-> "LSR", addr |-> "absolute_addr", cycles |-> 6]   \* $4E
      [] opcode =  80 -> [mn |-> "BVC", addr |-> "rel", cycles |-> 2]   \* $50
      [] opcode =  81 -> [mn |-> "EOR", addr |-> "indirect_y_val", cycles |-> 5]   \* $51
      [] opcode =  85 -> [mn |-> "EOR", addr |-> "zeropage_x_val", cycles |-> 4]   \* $55
      [] opcode =  86 -> [mn |-> "LSR", addr |-> "zeropage_x_addr", cycles |-> 6]   \* $56
      [] opcode =  88 -> [mn |-> "CLI", addr |-> "-", cycles |-> 2]   \* $58
      [] opcode =  89 -> [mn |-> "EOR", addr |-> "absolute_y_val", cycles |-> 4]   \* $59
      [] opcode =  93 -> [mn |-> "EOR", addr |-> "absolute_x_val", cycles |-> 4]   \* $5D
      [] opcode =  94 -> [mn |-> "LSR", addr |-> "absolute_x_addr", cycles |-> 7]   \* $5E
      [] opcode =  96 -> [mn |-> "RTS", addr |-> "-", cycles |-> 6]   \* $60
      [] opcode =  97 -> [mn |-> "ADC", addr |-> "indirect_x_val", cycles |-> 5]   \* $61
      [] opcode = 101 -> [mn |-> "ADC", addr |-> "zeropage_val", cycles |-> 3]   \* $65
      [] opcode = 102 -> [mn |-> "ROR", addr |-> "zeropage_addr", cycles |-> 5]   \* $66
      [] opcode = 104 -> [mn |-> "PLA", addr |-> "-", cycles |-> 4]   \* $68
      [] opcode = 105 -> [mn |-> "ADC", addr |-> "immediate", cycles |-> 2]   \* $69
      [] opcode = 106 -> [mn |-> "ROR", addr |-> "-", cycles |-> 2]   \* $6A
      [] opcode = 108 -> [mn |-> "JMP", addr |-> "indirect", cycles |-> 5]   \* $6C
      [] opcode = 109 -> [mn |-> "ADC", addr |-> "absolute_val", cycles |-> 4]   \* $6D
      [] opcode = 110 -> [mn |-> "ROR", addr |-> "absolute_addr", cycles |-> 6]   \* $6E
      [] opcode = 112 -> [mn |-> "BVS", addr |-> "rel", cycles |-> 2]   \* $70
      [] opcode = 113 -> [mn |-> "ADC", addr |-> "indirect_y_val", cycles |-> 6]   \* $71
      [] opcode = 117 -> [mn |-> "ADC", addr |-> "zeropage_x_val", cycles |-> 4]   \* $75
      [] opcode = 118 -> [mn |-> "ROR", addr |-> "zeropage_x_addr", cycles |-> 6]   \* $76
      [] opcode = 120 -> [mn |-> "SEI", addr |-> "-", cycles |-> 2]   \* $78
      [] opcode = 121 -> [mn |-> "ADC", addr |-> "absolute_y_val", cycles |-> 4]   \* $79
      [] opcode = 125 -> [mn |-> "ADC", addr |-> "absolute_x_val", cycles |-> 4]   \* $7D
      [] opcode = 126 -> [mn |-> "ROR", addr |-> "absolute_x_addr", cycles |-> 7]   \* $7E
      [] opcode = 129 -> [mn |-> "STA", addr |-> "indirect_x_addr", cycles |-> 6]   \* $81
      [] opcode = 132 -> [mn |-> "STY", addr |-> "zeropage_addr", cycles |-> 3]   \* $84
      [] opcode = 133 -> [mn |-> "STA", addr |-> "zeropage_addr", cycles |-> 3]   \* $85
      [] opcode = 134 -> [mn |-> "STX", addr |-> "zeropage_addr", cycles |-> 3]   \* $86
      [] opcode = 136 -> [mn |-> "DEY", addr |-> "-", cycles |-> 2]   \* $88
      [] opcode = 138 -> [mn |-> "TXA", addr |-> "-", cycles |-> 2]   \* $8A
      [] opcode = 140 -> [mn |-> "STY", addr |-> "absolute_addr", cycles |-> 4]   \* $8C
      [] opcode = 141 -> [mn |-> "STA", addr |-> "absolute_addr", cycles |-> 4]   \* $8D
      [] opcode = 142 -> [mn |-> "STX", addr |-> "absolute_addr", cycles |-> 4]   \* $8E
      [] opcode = 144 -> [mn |-> "BCC", addr |-> "rel", cycles |-> 2]   \* $90
      [] opcode = 145 -> [mn |-> "STA", addr |-> "indirect_y_addr", cycles |-> 6]   \* $91
      [] opcode = 148 -> [mn |-> "STY", addr |-> "zeropage_x_addr", cycles |-> 4]   \* $94
      [] opcode = 149 -> [mn |-> "STA", addr |-> "zeropage_x_addr", cycles |-> 4]   \* $95
      [] opcode = 150 -> [mn |-> "STX", addr |-> "zeropage_y_addr", cycles |-> 4]   \* $96
      [] opcode = 152 -> [mn |-> "TYA", addr |-> "-", cycles |-> 2]   \* $98
      [] opcode = 153 -> [mn |-> "STA", addr |-> "absolute_y_addr", cycles |-> 5]   \* $99
      [] opcode = 154 -> [mn |-> "TXS", addr |-> "-", cycles |-> 2]   \* $9A
      [] opcode = 157 -> [mn |-> "STA", addr |-> "absolute_x_addr", cycles |-> 5]   \* $9D
      [] opcode = 160 -> [mn |-> "LDY", addr |-> "immediate", cycles |-> 2]   \* $A0
      [] opcode = 161 -> [mn |-> "LDA", addr |-> "indirect_x_val", cycles |-> 6]   \* $A1
      [] opcode = 162 -> [mn |-> "LDX", addr |-> "immediate", cycles |-> 2]   \* $A2
      [] opcode = 164 -> [mn |-> "LDY", addr |-> "zeropage_val", cycles |-> 3]   \* $A4
      [] opcode = 165 -> [mn |-> "LDA", addr |-> "zeropage_val", cycles |-> 3]   \* $A5
      [] opcode = 166 -> [mn |-> "LDX", addr |-> "zeropage_val", cycles |-> 3]   \* $A6
      [] opcode = 168 -> [mn |-> "TAY", addr |-> "-", cycles |-> 2]   \* $A8
      [] opcode = 169 -> [mn |-> "LDA", addr |-> "immediate", cycles |-> 2]   \* $A9
      [] opcode = 170 -> [mn |-> "TAX", addr |-> "-", cycles |-> 2]   \* $AA
      [] opcode = 172 -> [mn |-> "LDY", addr |-> "absolute_val", cycles |-> 4]   \* $AC
      [] opcode = 173 -> [mn |-> "LDA", addr |-> "absolute_val", cycles |-> 4]   \* $AD
      [] opcode = 174 -> [mn |-> "LDX", addr |-> "absolute_val", cycles |-> 4]   \* $AE
      [] opcode = 176 -> [mn |-> "BCS", addr |-> "rel", cycles |-> 2]   \* $B0
      [] opcode = 177 -> [mn |-> "LDA", addr |-> "indirect_y_val", cycles |-> 5]   \* $B1
      [] opcode = 180 -> [mn |-> "LDY", addr |-> "zeropage_x_val", cycles |-> 4]   \* $B4
      [] opcode = 181 -> [mn |-> "LDA", addr |-> "zeropage_x_val", cycles |-> 4]   \* $B5
      [] opcode = 182 -> [mn |-> "LDX", addr |-> "zeropage_y_val", cycles |-> 4]   \* $B6
      [] opcode = 184 -> [mn |-> "CLV", addr |-> "-", cycles |-> 2]   \* $B8
      [] opcode = 185 -> [mn |-> "LDA", addr |-> "absolute_y_val", cycles |-> 4]   \* $B9
      [] opcode = 186 -> [mn |-> "TSX", addr |-> "-", cycles |-> 2]   \* $BA
      [] opcode = 188 -> [mn |-> "LDY", addr |-> "absolute_x_val", cycles |-> 4]   \* $BC
      [] opcode = 189 -> [mn |-> "LDA", addr |-> "absolute_x_val", cycles |-> 4]   \* $BD
      [] opcode = 190 -> [mn |-> "LDX", addr |-> "absolute_y_val", cycles |-> 4]   \* $BE
      [] opcode = 192 -> [mn |-> "CPY", addr |-> "immediate", cycles |-> 0]   \* $C0
      [] opcode = 193 -> [mn |-> "CMP", addr |-> "indirect_x_val", cycles |-> 6]   \* $C1
      [] opcode = 196 -> [mn |-> "CPY", addr |-> "zeropage_val", cycles |-> 0]   \* $C4
      [] opcode = 197 -> [mn |-> "CMP", addr |-> "zeropage_val", cycles |-> 3]   \* $C5
      [] opcode = 198 -> [mn |-> "DEC", addr |-> "zeropage_addr", cycles |-> 5]   \* $C6
      [] opcode = 200 -> [mn |-> "INY", addr |-> "-", cycles |-> 2]   \* $C8
      [] opcode = 201 -> [mn |-> "CMP", addr |-> "immediate", cycles |-> 2]   \* $C9
      [] opcode = 202 -> [mn |-> "DEX", addr |-> "-", cycles |-> 2]   \* $CA
      [] opcode = 204 -> [mn |-> "CPY", addr |-> "absolute_val", cycles |-> 0]   \* $CC
      [] opcode = 205 -> [mn |-> "CMP", addr |-> "absolute_val", cycles |-> 4]   \* $CD
      [] opcode = 206 -> [mn |-> "DEC", addr |-> "absolute_addr", cycles |-> 6]   \* $CE
      [] opcode = 208 -> [mn |-> "BNE", addr |-> "rel", cycles |-> 2]   \* $D0
      [] opcode = 209 -> [mn |-> "CMP", addr |-> "indirect_y_val", cycles |-> 5]   \* $D1
      [] opcode = 213 -> [mn |-> "CMP", addr |-> "zeropage_x_val", cycles |-> 4]   \* $D5
      [] opcode = 214 -> [mn |-> "DEC", addr |-> "zeropage_x_addr", cycles |-> 6]   \* $D6
      [] opcode = 216 -> [mn |-> "CLD", addr |-> "-", cycles |-> 2]   \* $D8
      [] opcode = 217 -> [mn |-> "CMP", addr |-> "absolute_y_val", cycles |-> 4]   \* $D9
      [] opcode = 221 -> [mn |-> "CMP", addr |-> "absolute_x_val", cycles |-> 4]   \* $DD
      [] opcode = 222 -> [mn |-> "DEC", addr |-> "absolute_x_addr", cycles |-> 7]   \* $DE
      [] opcode = 224 -> [mn |-> "CPX", addr |-> "immediate", cycles |-> 0]   \* $E0
      [] opcode = 225 -> [mn |-> "SBC", addr |-> "indirect_x_val", cycles |-> 6]   \* $E1
      [] opcode = 228 -> [mn |-> "CPX", addr |-> "zeropage_val", cycles |-> 0]   \* $E4
      [] opcode = 229 -> [mn |-> "SBC", addr |-> "zeropage_val", cycles |-> 3]   \* $E5
      [] opcode = 230 -> [mn |-> "INC", addr |-> "zeropage_addr", cycles |-> 5]   \* $E6
      [] opcode = 232 -> [mn |-> "INX", addr |-> "-", cycles |-> 2]   \* $E8
      [] opcode = 233 -> [mn |-> "SBC", addr |-> "immediate", cycles |-> 2]   \* $E9
      [] opcode = 234 -> [mn |-> "NOP", addr |-> "-", cycles |-> 2]   \* $EA
      [] opcode = 236 -> [mn |-> "CPX", addr |-> "absolute_val", cycles |-> 0]   \* $EC
      [] opcode = 237 -> [mn |-> "SBC", addr |-> "absolute_val", cycles |-> 4]   \* $ED
      [] opcode = 238 -> [mn |-> "INC", addr |-> "absolute_addr", cycles |-> 6]   \* $EE
      [] opcode = 240 -> [mn |-> "BEQ", addr |-> "rel", cycles |-> 2]   \* $F0
      [] opcode = 241 -> [mn |-> "SBC", addr |-> "indirect_y_val", cycles |-> 5]   \* $F1
      [] opcode = 245 -> [mn |-> "SBC", addr |-> "zeropage_x_val", cycles |-> 4]   \* $F5
      [] opcode = 246 -> [mn |-> "INC", addr |-> "zeropage_x_addr", cycles |-> 6]   \* $F6
      [] opcode = 248 -> [mn |-> "SED", addr |-> "-", cycles |-> 2]   \* $F8
      [] opcode = 249 -> [mn |-> "SBC", addr |-> "absolute_y_val", cycles |-> 4]   \* $F9
      [] opcode = 253 -> [mn |-> "SBC", addr |-> "absolute_x_val", cycles |-> 4]   \* $FD
      [] opcode = 254 -> [mn |-> "INC", addr |-> "absolute_x_addr", cycles |-> 7]   \* $FE
      [] opcode \in {2, 18, 34, 50, 66, 82, 98, 114, 146, 178, 210, 242} ->
            [mn |-> "JAM", addr |-> "-", cycles |-> 0]
      [] OTHER -> [mn |-> "NotImplemented", addr |-> "-", cycles |-> 0]

-----------------------------------------------------------------------------
(* CPU: instruction execution (cpu.py, Cpu.process_instruction)              *)

\* observation: a pushing instruction adds its record to h.shadow, a pulling
\* instruction takes the latest record off into h.step.popped
note_push(m, kind, was, pc_was) ==
    [m EXCEPT !.h.shadow = Append(@, [kind |-> kind, a |-> was.a, f |-> Flags(was),
                                      pc |-> pc_was, sp |-> was.sp])]

note_pull(m) ==
    IF m.h.shadow = <<>> THEN [m EXCEPT !.h.step.popped = NoPush]
    ELSE [m EXCEPT !.h.step.popped = m.h.shadow[Len(m.h.shadow)],
                   !.h.shadow = SubSeq(@, 1, Len(@) - 1)]

\* what one arm of the match statement leaves: the machine, result (-1 is
\* None), cycles and branched ("none" is None)
XR(m, result, cycles, branched) ==
    [m |-> m, result |-> result, cycles |-> cycles, branched |-> branched]

\* an arm whose result is the value that the call result s carries
XRV(s, cycles) == XR(s.m, s.val, cycles, "none")

\* an arm that sets no result
XRM(m, cycles) == XR(m, -1, cycles, "none")

\* Every arm below takes r, what its addressing function returned (for an arm
\* without one, the machine and 0), and d, what decode gives the opcode.

\* the operand value an arm reads through its addressing function
operand(r) == RV([r.m EXCEPT !.h.step.value = r.val], r.val)

\* a faulty ADC arithmetic that leaves the carry-in out of the sum
ADC_without_carry_in(m, value) ==
    LET a == m.cpu.a
        result == a + value
    IN  RV([m EXCEPT !.cpu.c = result > 255,
                     !.cpu.v = Bit(BitAnd(BitXor(result, a), BitXor(result, value)), 7),
                     !.cpu.a = result % 256],
           result % 256)

\* the arithmetic of the ADC arm on operand value: the machine with C, V and A
\* assigned, and result
ADC(m, value) ==
    LET a == m.cpu.a
        result == a + value + BoolInt(m.cpu.c)
    IN  RV([m EXCEPT !.cpu.c = result > 255,
                     !.cpu.v = Bit(BitAnd(BitXor(result, a), BitXor(result, value)), 7),
                     !.cpu.a = result % 256],
           result % 256)

then_ADC(r) == ADC(r.m, r.val)

\* case 0x69 | 0x65 | 0x75 | 0x6D | 0x7D | 0x79 | 0x61 | 0x71
exec_ADC(r, d) == XRV(then_ADC(operand(r)), d.cycles)

\* the arithmetic of the SBC arm on operand value; ~value is -value - 1, so
\* result may be negative, and bit 7 of a negative Python int is bit 7 of its
\* value modulo 256
SBC(m, value) ==
    LET a == m.cpu.a
        result == a + (-value - 1) + BoolInt(m.cpu.c)
        low == result % 256
    IN  RV([m EXCEPT !.cpu.c = result >= 0,
                     !.cpu.v = Bit(BitAnd(BitXor(low, a), BitXor(low, value)), 7),
                     !.cpu.a = low],
           low)

then_SBC(r) == SBC(r.m, r.val)

\* case 0xE9 | 0xE5 | 0xF5 | 0xED | 0xFD | 0xF9 | 0xE1 | 0xF1
exec_SBC(r, d) == XRV(then_SBC(operand(r)), d.cycles)

\* AND, ORA, EOR on operand value
logic(m, mn, value) ==
    LET res == CASE mn = "AND" -> BitAnd(m.cpu.a, value)
                 [] mn = "ORA" -> BitOr(value, m.cpu.a)
                 [] OTHER -> BitXor(m.cpu.a, value)
    IN  RV([m EXCEPT !.cpu.a = res], res)

then_logic(r, mn) == logic(r.m, mn, r.val)

\* AND, ORA, EOR
exec_logic(r, d) == XRV(then_logic(operand(r), d.mn), d.cycles)

\* the shifted value and the new carry of ASL, LSR, ROL, ROR
shifted(mn, value, c) ==
    CASE mn = "ASL" -> [result |-> (value * 2) % 256, c |-> Bit(value, 7)]
      [] mn = "LSR" -> [result |-> value \div 2, c |-> Bit(value, 0)]
      [] mn = "ROL" -> [result |-> (value * 2 + BoolInt(c)) % 256, c |-> Bit(value, 7)]
      [] OTHER      -> [result |-> (value \div 2) + (IF c THEN 128 ELSE 0), c |-> Bit(value, 0)]

\* ASL, LSR, ROL, ROR on memory: rd is what self.read(addr) gave
shift_memory(addr, rd, d) ==
    LET s == shifted(d.mn, rd.val, rd.m.cpu.c)
    IN  XR([Cpu_write(rd.m, addr, s.result) EXCEPT !.cpu.c = s.c],
           s.result, d.cycles, "none")

\* ASL, LSR, ROL, ROR: on the accumulator, or on memory through read and write
exec_shift(r, d) ==
    IF d.addr = "-"
    THEN LET s == shifted(d.mn, r.m.cpu.a, r.m.cpu.c)
         IN  XR([r.m EXCEPT !.cpu.a = s.result, !.cpu.c = s.c], s.result, d.cycles, "none")
    ELSE shift_memory(r.val, Cpu_read(r.m, r.val), d)

\* BCC, BCS, BEQ, BMI, BNE, BPL, BVC, BVS
exec_branch(r, d) ==
    LET c == r.m.cpu
        taken == CASE d.mn = "BCC" -> ~c.c
                   [] d.mn = "BCS" -> c.c
                   [] d.mn = "BEQ" -> c.z
                   [] d.mn = "BMI" -> c.n
                   [] d.mn = "BNE" -> ~c.z
                   [] d.mn = "BPL" -> ~c.n
                   [] d.mn = "BVC" -> ~c.v
                   [] OTHER -> c.v
    IN  IF taken THEN XR(IncPc(r.m, r.val), -1, d.cycles, "taken")
        ELSE XR(r.m, -1, d.cycles, "not")

\* the BIT arm on operand value
BIT(m, value) == RV([m EXCEPT !.cpu.v = Bit(value, 6)], value)

then_BIT(r) == BIT(r.m, r.val)

\* case 0x24 | 0x2C
exec_BIT(r, d) == XRV(then_BIT(operand(r)), d.cycles)

\* a faulty BRK arm that pushes the status the way an interrupt does, bit 4
\* clear
exec_BRK_without_break_flag(m, d) ==
    LET m1 == push16(m, m.cpu.pc + 1)
        m2 == push(m1, sr(m1.cpu))
        m3 == note_push(m2, "BRK", m.cpu, m.cpu.pc - 1)
    IN  XR([m3 EXCEPT !.cpu.i = TRUE, !.cpu.pc = cpu_irq], -1, d.cycles, "none")

\* case 0x00; pc was already incremented once
exec_BRK(m, d) ==
    LET m1 == push16(m, m.cpu.pc + 1)
        m2 == push(m1, BitOr(sr(m1.cpu), 48))
        m3 == note_push(m2, "BRK", m.cpu, m.cpu.pc - 1)
    IN  XR([m3 EXCEPT !.cpu.i = TRUE, !.cpu.pc = cpu_irq], -1, d.cycles, "none")

\* CLC, CLD, CLI, CLV, SEC, SED, SEI
exec_flag(m, d) ==
    XR(CASE d.mn = "CLC" -> [m EXCEPT !.cpu.c = FALSE]
         [] d.mn = "CLD" -> [m EXCEPT !.cpu.d = FALSE]
         [] d.mn = "CLI" -> [m EXCEPT !.cpu.i = FALSE]
         [] d.mn = "CLV" -> [m EXCEPT !.cpu.v = FALSE]
         [] d.mn = "SEC" -> [m EXCEPT !.cpu.c = TRUE]
         [] d.mn = "SED" -> [m EXCEPT !.cpu.d = TRUE]
         [] OTHER -> [m EXCEPT !.cpu.i = TRUE],
       -1, d.cycles, "none")

\* CMP, CPX, CPY on operand value
compare(m, mn, value) ==
    LET reg == CASE mn = "CMP" -> m.cpu.a
                 [] mn = "CPX" -> m.cpu.x
                 [] OTHER -> m.cpu.y
    IN  RV([m EXCEPT !.cpu.c = reg >= value], (reg - value) % 256)

then_compare(r, mn) == compare(r.m, mn, r.val)

\* CMP, CPX, CPY
exec_compare(r, d) == XRV(then_compare(operand(r), d.mn), d.cycles)

\* INC and DEC through read and write: rd is what self.read(addr) gave
incdec_memory(addr, rd, d) ==
    LET result == IF d.mn = "INC" THEN (rd.val + 1) % 256 ELSE (rd.val - 1) % 256
    IN  XR(Cpu_write(rd.m, addr, result), result, d.cycles, "none")

\* INC and DEC on memory.  INC oper and INC oper,X (zero page) read and
\* write self.ram directly; the others go through read and write
exec_incdec_mem(r, d) ==
    IF d.mn = "INC" /\ d.addr \in {"zeropage_addr", "zeropage_x_addr"}
    THEN LET result == (MemGet(r.m.cpu.ram, r.val) + 1) % 256
         IN  XR([r.m EXCEPT !.cpu.ram = MemSet(@, r.val, result)],
                result, d.cycles, "none")
    ELSE incdec_memory(r.val, Cpu_read(r.m, r.val), d)

\* DEX, DEY, INX, INY, TAX, TAY, TSX, TXA, TXS, TYA: each sets result
exec_register(m, d) ==
    LET c == m.cpu
        res == CASE d.mn = "DEX" -> (c.x - 1) % 256
                 [] d.mn = "DEY" -> (c.y - 1) % 256
                 [] d.mn = "INX" -> (c.x + 1) % 256
                 [] d.mn = "INY" -> (c.y + 1) % 256
                 [] d.mn \in {"TAX", "TAY"} -> c.a
                 [] d.mn = "TSX" -> c.sp
                 [] d.mn \in {"TXA", "TXS"} -> c.x
                 [] OTHER -> c.y
    IN  XR(CASE d.mn \in {"DEX", "INX", "TAX", "TSX"} -> [m EXCEPT !.cpu.x = res]
             [] d.mn \in {"DEY", "INY", "TAY"} -> [m EXCEPT !.cpu.y = res]
             [] d.mn = "TXS" -> [m EXCEPT !.cpu.sp = res, !.h.shadow = <<>>]
             [] OTHER -> [m EXCEPT !.cpu.a = res],
           res, d.cycles, "none")

\* self.pc = the address that r carries, plus k
jump_to(r, k, cycles) == XRM([r.m EXCEPT !.cpu.pc = r.val + k], cycles)

\* self.read16(self.pc)
read16_at_pc(m) == Cpu_read16(m, m.cpu.pc)

\* self.sr = the byte that the pull s carries
then_set_sr(s) == set_sr(s.m, s.val)

\* JMP oper, JMP (oper), JSR, RTS, RTI
exec_jump(r, d, pc_was) ==
    CASE d.mn = "JMP" /\ d.addr = "-" -> jump_to(read16_at_pc(r.m), 0, d.cycles)
      [] d.mn = "JMP" -> jump_to(r, 0, d.cycles)
      [] d.mn = "JSR" ->
            jump_to(read16_at_pc(note_push(push16(r.m, pc_was + 2), "JSR", r.m.cpu, pc_was)),
                    0, d.cycles)
      [] d.mn = "RTS" -> jump_to(pull16(note_pull(r.m)), 1, d.cycles)
      [] OTHER -> jump_to(pull16(then_set_sr(pull(note_pull(r.m)))), 0, d.cycles)

\* LDA, LDX, LDY of operand value
load(m, mn, value) ==
    RV(CASE mn = "LDA" -> [m EXCEPT !.cpu.a = value]
         [] mn = "LDX" -> [m EXCEPT !.cpu.x = value]
         [] OTHER -> [m EXCEPT !.cpu.y = value],
       value)

then_load(r, mn) == load(r.m, mn, r.val)

\* LDA, LDX, LDY
exec_load(r, d) == XRV(then_load(operand(r), d.mn), d.cycles)

\* STA, STX, STY
exec_store(r, d) ==
    XRM(Cpu_write(r.m, r.val, CASE d.mn = "STA" -> r.m.cpu.a
                                [] d.mn = "STX" -> r.m.cpu.x
                                [] OTHER -> r.m.cpu.y),
        d.cycles)

\* self.a = the byte that the pull s carries
then_set_a(s) == RV([s.m EXCEPT !.cpu.a = s.val], s.val)

\* PHA, PHP, PLA, PLP
exec_stack(m, d) ==
    CASE d.mn = "PHA" ->
            XRM(note_push(push(m, m.cpu.a), "PHA", m.cpu, m.cpu.pc - 1), d.cycles)
      [] d.mn = "PHP" ->
            XRM(note_push(push(m, BitOr(sr(m.cpu), 48)), "PHP", m.cpu, m.cpu.pc - 1),
                d.cycles)
      [] d.mn = "PLA" -> XRV(then_set_a(pull(note_pull(m))), d.cycles)
      [] OTHER -> XRM(then_set_sr(pull(note_pull(m))), d.cycles)

\* the arms of the match statement, once the addressing function of the
\* opcode has returned r
exec_arm(r, d, pc_was) ==
    CASE d.mn = "ADC" -> exec_ADC(r, d)
      [] d.mn = "SBC" -> exec_SBC(r, d)
      [] d.mn \in {"AND", "ORA", "EOR"} -> exec_logic(r, d)
      [] d.mn \in {"ASL", "LSR", "ROL", "ROR"} -> exec_shift(r, d)
      [] d.mn \in {"BCC", "BCS", "BEQ", "BMI", "BNE", "BPL", "BVC", "BVS"} ->
            exec_branch(r, d)
      [] d.mn = "BIT" -> exec_BIT(r, d)
      [] d.mn = "BRK" -> exec_BRK(r.m, d)
      [] d.mn \in {"CLC", "CLD", "CLI", "CLV", "SEC", "SED", "SEI"} -> exec_flag(r.m, d)
      [] d.mn \in {"CMP", "CPX", "CPY"} -> exec_compare(r, d)
      [] d.mn \in {"INC", "DEC"} -> exec_incdec_mem(r, d)
      [] d.mn \in {"DEX", "DEY", "INX", "INY", "TAX", "TAY", "TSX", "TXA", "TXS", "TYA"} ->
            exec_register(r.m, d)
      [] d.mn \in {"JMP", "JSR", "RTS", "RTI"} -> exec_jump(r, d, pc_was)
      [] d.mn \in {"LDA", "LDX", "LDY"} -> exec_load(r, d)
      [] d.mn \in {"STA", "STX", "STY"} -> exec_store(r, d)
      [] d.mn \in {"PHA", "PHP", "PLA", "PLP"} -> exec_stack(r.m, d)
      [] d.mn = "NOP" -> XRM(r.m, d.cycles)
      [] d.mn = "JAM" -> XR(Raise(r.m, "Exception"), -1, 0, "none")
      [] OTHER -> XR(Raise(r.m, "NotImplementedError"), -1, 0, "none")

\* the match statement on the decoded opcode
exec(m, d, pc_was) == exec_arm(addr_call(m, d.addr), d, pc_was)

\* a faulty _handle_nmi that pushes the status the way BRK does, bit 4 set
handle_nmi_pushes_break(m) ==
    LET m1 == push16(m, m.cpu.pc)
        m2 == push(m1, BitOr(sr(m1.cpu), 16))
        m3 == [note_push(m2, "NMI", m.cpu, m.cpu.pc)
                  EXCEPT !.cpu.pc = cpu_nmi, !.cpu.i = TRUE,
                         !.h.step.nmi = TRUE, !.h.frame.nmis = @ + 1]
    IN  Cpu_tick_clock(m3, 7)

\* Cpu._handle_nmi
handle_nmi(m) ==
    LET m1 == push16(m, m.cpu.pc)
        m2 == push(m1, BitAnd(sr(m1.cpu), 239))
        m3 == [note_push(m2, "NMI", m.cpu, m.cpu.pc)
                  EXCEPT !.cpu.pc = cpu_nmi, !.cpu.i = TRUE,
                         !.h.step.nmi = TRUE, !.h.frame.nmis = @ + 1]
    IN  Cpu_tick_clock(m3, 7)

\* a faulty _handle_vblank that services an NMI at every vblank start
handle_vblank_always_nmi(m) ==
    handle_nmi([m EXCEPT !.cpu.clock = 0, !.cpu.vblank_count = @ + 1])

\* Cpu._handle_vblank
handle_vblank(m) ==
    LET m1 == [m EXCEPT !.cpu.clock = 0, !.cpu.vblank_count = @ + 1]
    IN  IF m1.ppu.nmi THEN handle_nmi(m1) ELSE m1

\* the sleep of Cpu.on_branch_check_loop
branch_loop_sleep(m) ==
    [Ppu_tick_until_ppustatus_change(m) EXCEPT !.h.step.slept = TRUE]

\* Cpu.on_branch_check_loop
on_branch_check_loop(m) ==
    LET c == m.cpu
        branch_loop_cache_new == <<c.pc, c.sp, c.a, c.x, c.y, c.n, c.v, c.d, c.i, c.z, c.c>>
    IN  [(IF branch_loop_cache_new = c.branch_loop_cache THEN branch_loop_sleep(m) ELSE m)
            EXCEPT !.cpu.branch_loop_cache = branch_loop_cache_new]

\* Cpu.process_instruction after the match statement left e: Z and N from
\* result
update_zn(e) ==
    IF e.result # -1
    THEN [e.m EXCEPT !.cpu.z = (e.result = 0), !.cpu.n = Bit(e.result, 7)]
    ELSE e.m

\* Cpu.process_instruction after the update of Z and N: the check for a loop
\* that waits
check_sleep(m, branched, pc_was) ==
    IF m.cpu.sleep_on_branch_loop
    THEN IF branched # "none"
         THEN IF branched = "taken" THEN on_branch_check_loop(m)
              ELSE [m EXCEPT !.cpu.branch_loop_cache = <<>>]
         ELSE IF m.cpu.pc = pc_was THEN on_branch_check_loop(m)
         ELSE m
    ELSE m

\* Cpu.process_instruction after the match statement left e
after_exec(e, pc_was) ==
    IF e.m.fault # NoFault THEN e.m
    ELSE Cpu_tick_clock(check_sleep(update_zn(e), e.branched, pc_was), e.cycles)

\* Cpu.process_instruction after the opcode fetch gave f
after_fetch(f, pc_was) ==
    IF f.m.fault # NoFault THEN f.m
    ELSE after_exec(exec([IncPc(f.m, 1) EXCEPT !.h.step.opcode = f.val],
                         decode(f.val), pc_was),
                    pc_was)

\* Cpu.process_instruction from the opcode fetch on
fetch_and_execute(m) == after_fetch(Cpu_read(m, m.cpu.pc), m.cpu.pc)

\* observation: a step begins
step_start(m) ==
    [m EXCEPT !.h.step = StepObs0,
              !.h.act = "step",
              !.h.pre = [cpu |-> m.cpu, ppu |-> m.ppu, ctl |-> m.ctl, apu |-> m.apu]]

\* Cpu.process_instruction, if self.vblank_needs_handling, up to the call of
\* _handle_vblank
vblank_start_part(m) ==
    IF m.cpu.vblank_needs_handling
    THEN handle_vblank([m EXCEPT !.cpu.vblank_needs_handling = FALSE])
    ELSE m

\* self.vblank_end_needs_handling = False, if it was set
vblank_end_part(m) ==
    IF m.cpu.vblank_end_needs_handling
    THEN [m EXCEPT !.cpu.vblank_end_needs_handling = FALSE]
    ELSE m

\* Cpu.process_instruction from the first return on: m is the machine at the
\* call, m1 the machine after vblank_start_part
after_vblank_start(m, m1) ==
    IF m.cpu.vblank_needs_handling /\ m.cpu.stop_on_vblank_start THEN m1
    ELSE IF m1.cpu.vblank_end_needs_handling /\ m1.cpu.stop_on_vblank_end
    THEN vblank_end_part(m1)
    ELSE fetch_and_execute(vblank_end_part(m1))

\* Cpu.process_instruction on a machine where the step has begun
step_from(m) == after_vblank_start(m, vblank_start_part(m))

\* Cpu.process_instruction
process_instruction(m0) == step_from(step_start(m0))

-----------------------------------------------------------------------------
(* Construction (Cpu.__init__, Ppu.__init__, Controllers.__init__,           *)
(* Apu.__init__, Nes.__init__)                                               *)

\* Nes.__init__ passes sleep_cpu as sleep_on_branch_loop and breakpoints as
\* every stop_on_ flag
Cpu0(sleep_cpu, breakpoints) ==
    [pc |-> cpu_reset, sp |-> 253, a |-> 0, x |-> 0, y |-> 0,
     n |-> FALSE, v |-> FALSE, d |-> FALSE, i |-> TRUE, z |-> FALSE, c |-> FALSE,
     ram |-> EmptyMem,
     vblank_needs_handling |-> FALSE, vblank_end_needs_handling |-> FALSE,
     sleep_on_branch_loop |-> sleep_cpu, branch_loop_cache |-> <<>>,
     stop_on_vblank_start |-> breakpoints, stop_on_vblank_end |-> breakpoints,
     clock |-> 0, vblank_count |-> 0]

Ppu0 ==
    [vram |-> EmptyMem, palette_ram |-> EmptyMem, oam |-> EmptyMem,
     frame_count |-> 0, row |-> 0, col |-> 0,
     ppuctrl |-> 0, ppumask |-> 0, ppustatus |-> 0, oamaddr |-> 0,
     scroll_x |-> 0, scroll_y |-> 0, ppuaddr |-> 0, ppudata_read_buffer |-> 0,
     write_latch |-> FALSE, vblank |-> FALSE, nmi |-> FALSE,
     sprite_zero_hit_loc |-> SPRITE_ZERO_HIT_NONE, odd_frame |-> FALSE,
     last_row_rendered |-> -1]

Ctl0 ==
    [controller_1_state |-> 0, controller_2_state |-> 0,
     controller_1_shift_register |-> 0, controller_2_shift_register |-> 0,
     out0 |-> FALSE]

Apu0 == [registers |-> EmptyMem]

H0 == [cycles |-> 0, skips |-> 0, ops |-> 0, ticks |-> 0, act |-> "none", frame |-> FrameObs0, done |-> FrameObs0,
       step |-> StepObs0, shadow |-> <<>>, trail |-> <<>>, pre |-> [cpu |-> cpu, ppu |-> ppu, ctl |-> ctl, apu |-> apu],
       last |-> NoAccess, before |-> NoAccess, pad |-> PadObs0, twin |-> NoTwin,
       run |-> NoRun]

\* a cartridge: code at $8000, the NMI and IRQ handlers at offsets in it,
\* blank CHR of one 8 KiB chunk
Cart(code, nmi_at, irq_at) ==
    [prg |-> code, nmi |-> 32768 + nmi_at, reset |-> 32768, irq |-> 32768 + irq_at,
     chr |-> EmptyMem, chr_len |-> 8192, vertical_mirroring |-> FALSE]

-----------------------------------------------------------------------------
(* The run: the console calls Cpu.process_instruction again and again        *)
(* (Nes.run, Nes.run_until_next_vblank_start)                                *)

\* frames emulated
MaxFrames == 2

Machine == [cpu |-> cpu, ppu |-> ppu, ctl |-> ctl, apu |-> apu, h |-> h, fault |-> fault]

\* the variables become machine t; an exception ends the run where it was
Becomes(t) ==
    IF t.fault # NoFault
    THEN /\ fault' = t.fault
         /\ UNCHANGED <<cpu, ppu, ctl, apu, h>>
    ELSE /\ cpu' = t.cpu
         /\ ppu' = t.ppu
         /\ ctl' = t.ctl
         /\ apu' = t.apu
         /\ h' = t.h
         /\ fault' = NoFault

\* one call of Cpu.process_instruction
Step ==
    /\ fault = NoFault
    /\ ppu.frame_count < MaxFrames
    /\ Becomes(process_instruction(Machine))
    /\ UNCHANGED rom

\* Programs of the whole-console runs, as bytes at $8000
\* JMP $8000 ; nmi: RTI
ProgIdle == Cart(<<76, 0, 128, 64>>, 3, 3)
\* LDA #$80 ; STA $2000 ; JMP * ; nmi: RTI
ProgNmiIdle == Cart(<<169, 128, 141, 0, 32, 76, 5, 128, 64>>, 8, 8)
\* loop: BIT $2002 ; BPL loop ; JMP loop ; nmi: RTI
ProgPoll == Cart(<<44, 2, 32, 16, 251, 76, 0, 128, 64>>, 8, 8)
\* LDA #$80 ; STA $2000 ; loop: INC $10 ; LDA $10 ; NOP ; JMP loop ;
\* nmi: LDA $2002 ; RTI
ProgNmiWork ==
    Cart(<<169, 128, 141, 0, 32, 230, 16, 165, 16, 234, 76, 5, 128, 173, 2, 32, 64>>, 13, 13)
\* LDA #$80 ; STA $2000 ; loop: NOP ; JMP loop ;
\* nmi: LDA #0 ; STA $2000 ; LDA #$80 ; STA $2000 ; RTI
ProgNmiToggle ==
    Cart(<<169, 128, 141, 0, 32, 234, 76, 5, 128,
           169, 0, 141, 0, 32, 169, 128, 141, 0, 32, 64>>, 9, 9)
\* LDA #$80 ; STA $2000 ; loop: LDA #2 ; STA $4014 ; JMP loop ; nmi: RTI
ProgDma == Cart(<<169, 128, 141, 0, 32, 169, 2, 141, 20, 64, 76, 5, 128, 64>>, 13, 13)
\* loop: LDA $2002 ; BPL loop ; LDA #$80 ; STA $2000 ; LDA #0 ; STA $2000 ;
\* JMP loop ; nmi: RTI
ProgNmiLate ==
    Cart(<<173, 2, 32, 16, 251, 169, 128, 141, 0, 32, 169, 0, 141, 0, 32,
           76, 0, 128, 64>>, 18, 18)
\* LDA #$80 ; STA $2000 ; JMP * ; nmi: LDA #0 ; STA $2000 ; RTI
ProgNmiOnce ==
    Cart(<<169, 128, 141, 0, 32, 76, 5, 128, 169, 0, 141, 0, 32, 64>>, 8, 8)

\* loop: LDA #0 ; STA $2000 ; NOP ; NOP ; NOP ; LDA #$80 ; STA $2000 ;
\* JMP loop ; nmi: RTI
ProgNmiRaise ==
    Cart(<<169, 0, 141, 0, 32, 234, 234, 234, 169, 128, 141, 0, 32, 76, 0, 128, 64>>,
         16, 16)

Programs == {ProgIdle, ProgNmiIdle, ProgPoll, ProgNmiWork, ProgNmiToggle, ProgDma,
             ProgNmiLate, ProgNmiOnce, ProgNmiRaise}

Init ==
    /\ rom \in Programs
    /\ \E sleep_cpu \in BOOLEAN, breakpoints \in BOOLEAN : cpu = Cpu0(sleep_cpu, breakpoints)
    /\ ppu = Ppu0
    /\ ctl = Ctl0
    /\ apu = Apu0
    /\ h = H0
    /\ fault = NoFault

Next == Step

Spec == Init /\ [][Next]_vars

-----------------------------------------------------------------------------
(* Clock relation between CPU and PPU                                        *)

\* the PPU dot counter of the specification: 341 dots per row, accumulated
\* across frames, the dots skipped at odd frames added back
DotCounter341 == (ppu.frame_count * TOTAL_ROWS + ppu.row) * 341 + ppu.col - h.skips

\* C1: with idle-loop acceleration disabled, the PPU dot counter row*341 + col
\* (accumulated across frames, odd-frame skip ignored) has advanced by exactly
\* 3 times the CPU cycles consumed (instructions, 7 per NMI, 513 per OAM-DMA)
C1_DotsPerCycle ==
    ~cpu.sleep_on_branch_loop => DotCounter341 = 3 * h.cycles

-----------------------------------------------------------------------------
(* Vblank flag and NMI                                                       *)

\* rows finished since power-on
RowsDone(p) == p.frame_count * TOTAL_ROWS + p.row

\* the last CPU step finished row r of some frame
FinishedRow(r) ==
    \E f \in h.pre.ppu.frame_count .. ppu.frame_count :
        /\ RowsDone(h.pre.ppu) <= f * TOTAL_ROWS + r
        /\ f * TOTAL_ROWS + r < RowsDone(ppu)

\* the last CPU step crossed the row-240 boundary
CrossedRow240 == FinishedRow(VBLANK_START_ROW)

\* the last CPU step crossed the pre-render boundary (the end of row 260)
CrossedRow260 == FinishedRow(VBLANK_END_ROW)

\* C2: in every frame PPUSTATUS bit 7 makes exactly one 0-to-1 transition, at
\* the row-240 boundary; it falls only by a CPU read of $2002 or at the
\* pre-render boundary (end of row 260); nothing else sets or clears it
C2_VblankFlag ==
    /\ h.frame.sets <= 1
    /\ h.done.valid => h.done.sets = 1
    /\ h.frame.sets = (IF ppu.row > VBLANK_START_ROW THEN 1 ELSE 0)
    /\ (~Bit(h.pre.ppu.ppustatus, 7) /\ Bit(ppu.ppustatus, 7))
           => h.step.vstart /\ CrossedRow240
    /\ (Bit(h.pre.ppu.ppustatus, 7) /\ ~Bit(ppu.ppustatus, 7))
           => \/ h.step.reads2002 > 0
              \/ h.step.vend /\ CrossedRow260
    /\ h.step.vstart => CrossedRow240
    /\ h.step.vend => CrossedRow260

\* a frame has completed with its one transition, and in the next frame a
\* read of $2002 has just cleared the flag that the row-240 boundary had set
C2_Witness ==
    /\ h.done.valid /\ h.done.sets = 1
    /\ h.frame.sets = 1
    /\ h.step.reads2002 > 0
    /\ Bit(h.pre.ppu.ppustatus, 7) /\ ~Bit(ppu.ppustatus, 7)

\* C3: in every frame the CPU services an NMI exactly once if PPUCTRL bit 7
\* is set when the row-240 boundary is crossed and never otherwise; one vblank
\* start never causes two NMI services
C3_NmiOncePerFrame ==
    /\ h.done.valid => h.done.nmis = (IF h.done.nmi_enabled THEN 1 ELSE 0)
    /\ h.frame.nmis <= (IF h.frame.nmi_enabled THEN 1 ELSE 0)
    /\ h.frame.nmis <= h.frame.sets
    /\ h.step.nmi => h.pre.cpu.vblank_needs_handling /\ h.pre.ppu.row > VBLANK_START_ROW

\* a frame with one NMI service has completed, and the handler of the next
\* frame's NMI has switched NMI off and on again during vblank without a
\* second service
C3_Witness ==
    /\ h.done.valid /\ h.done.nmi_enabled /\ h.done.nmis = 1
    /\ h.frame.nmis = 1
    /\ ppu.vblank
    /\ ~Bit(h.pre.ppu.ppuctrl, 7) /\ Bit(ppu.ppuctrl, 7)

\* the machine before the last CPU step (the observations are not part of it)
PreMachine ==
    [cpu |-> h.pre.cpu, ppu |-> h.pre.ppu, ctl |-> h.pre.ctl, apu |-> h.pre.apu,
     h |-> h, fault |-> NoFault]

\* the status byte an interrupt pushes: the flags, bit 5 set, bit 4 as given
StatusByte(c, b) ==
    128 * BoolInt(c.n) + 64 * BoolInt(c.v) + 32 + 16 * b + 8 * BoolInt(c.d)
        + 4 * BoolInt(c.i) + 2 * BoolInt(c.z) + BoolInt(c.c)

\* the NMI service applied to machine m: PC and the status (bit 4 clear, bit 5
\* set) pushed, I set, PC loaded from the NMI vector, 7 cycles ticked
NmiServiced(m) ==
    LET c == m.cpu
        ram1 == MemSet(c.ram, 256 + c.sp, c.pc \div 256)
        ram2 == MemSet(ram1, 256 + ((c.sp - 1) % 256), c.pc % 256)
        ram3 == MemSet(ram2, 256 + ((c.sp - 2) % 256), StatusByte(c, 0))
    IN  Cpu_tick_clock([m EXCEPT !.cpu.ram = ram3,
                                 !.cpu.sp = (c.sp - 3) % 256,
                                 !.cpu.i = TRUE,
                                 !.cpu.pc = cpu_nmi,
                                 !.cpu.clock = 0,
                                 !.cpu.vblank_count = @ + 1,
                                 !.cpu.vblank_needs_handling = FALSE], 7)

\* C4 as stated: a CPU step that finds the NMI asserted pushes PC and the
\* status (bit 4 clear, bit 5 set), sets I, loads PC from the NMI vector,
\* consumes 7 cycles and fetches no opcode in that step
C4_NmiStepOnly ==
    h.step.nmi =>
        LET s == NmiServiced(PreMachine)
        IN  /\ cpu = s.cpu
            /\ ppu = s.ppu
            /\ h.step.cycles = 7
            /\ h.step.opcode = -1

\* C4 (amended): a CPU step that finds the NMI asserted services it (PC and
\* status pushed with bit 4 clear and bit 5 set, I set, PC from the NMI vector,
\* 7 cycles); when the console runs without breakpoints the same step then
\* fetches and executes the first handler instruction and consumes its cycles
\* too; only with breakpoints does the step end after the service
C4_NmiStep ==
    h.step.nmi =>
        LET s == NmiServiced(PreMachine)
            t == IF h.pre.cpu.stop_on_vblank_start THEN s
                 ELSE fetch_and_execute([s EXCEPT !.cpu.vblank_end_needs_handling = FALSE])
        IN  /\ cpu = t.cpu
            /\ ppu = t.ppu
            /\ ctl = t.ctl
            /\ apu = t.apu
            /\ h.step.cycles = 7 + (t.h.cycles - s.h.cycles)
            /\ h.pre.cpu.stop_on_vblank_start => h.step.opcode = -1
            /\ ~h.pre.cpu.stop_on_vblank_start => h.step.opcode = Cpu_read(s, cpu_nmi).val

\* without breakpoints, a step has serviced the NMI and executed the first
\* handler instruction as well
C4_Witness ==
    /\ h.step.nmi
    /\ ~h.pre.cpu.stop_on_vblank_start
    /\ h.step.opcode # -1
    /\ h.step.cycles > 7

\* the last step wrote $2000 with bit 7 set where it was clear, the vblank
\* flag was set before the step and still is, and the vblank had started with
\* the NMI disabled
RisingWriteInVblank ==
    /\ h.act = "step" /\ fault = NoFault
    /\ ~Bit(h.pre.ppu.ppuctrl, 7) /\ Bit(ppu.ppuctrl, 7)
    /\ h.pre.ppu.vblank /\ Bit(h.pre.ppu.ppustatus, 7)
    /\ ppu.vblank /\ Bit(ppu.ppustatus, 7)
    /\ ~h.frame.nmi_enabled /\ h.frame.nmis = 0

\* C19: if a write to $2000 changes PPUCTRL bit 7 from 0 to 1 while the vblank
\* flag is set, the NMI is raised immediately and the CPU services it at the
\* start of its next step, even though vblank started with the NMI disabled
C19_NmiOnEnable ==
    [][RisingWriteInVblank => (ppu.nmi /\ h'.step.nmi)]_vars

-----------------------------------------------------------------------------
(* The PPU ports seen from the bus: the CPU's reads and writes of them       *)
(* (Cpu.read, Cpu.write) in any order, with waits for the next PPUSTATUS     *)
(* change (Ppu.tick_until_ppustatus_change) between them                     *)

\* bus accesses and waits in one run
MaxBusOps == 5
MaxBusTicks == 4

\* $2002 and a mirror of it, $200A
BusReadAddrs == {8194, 8202}

\* the bytes written to $2001 (rendering on), $2005 and $2006
BusWrites == {<<8193, 30>>, <<8197, 197>>, <<8198, 63>>, <<8198, 197>>}

\* ProgIdle with a CHR whose tile 0 has two opaque top rows, so that sprite 0
\* (all zero in OAM, drawn from screen row 1) meets the background once
\* rendering is on
ProgSprite == [ProgIdle EXCEPT !.chr = MemSet(MemSet(EmptyMem, 0, 255), 1, 255)]

\* the machine as a bus access or a wait finds it
BusMachine ==
    [Machine EXCEPT !.h.pre = [cpu |-> cpu, ppu |-> ppu, ctl |-> ctl, apu |-> apu],
                    !.h.step = StepObs0]

BusInit ==
    /\ rom = ProgSprite
    /\ cpu = Cpu0(TRUE, FALSE)
    /\ ppu = Ppu0
    /\ ctl = Ctl0
    /\ apu = Apu0
    /\ h = H0
    /\ fault = NoFault

BusRead(addr) ==
    /\ fault = NoFault
    /\ h.ops < MaxBusOps
    /\ Becomes([Cpu_read(BusMachine, addr).m EXCEPT !.h.ops = @ + 1, !.h.act = "read"])
    /\ UNCHANGED rom

BusWrite(addr, value) ==
    /\ fault = NoFault
    /\ h.ops < MaxBusOps
    /\ Becomes([Cpu_write(BusMachine, addr, value) EXCEPT !.h.ops = @ + 1, !.h.act = "write"])
    /\ UNCHANGED rom

BusWait ==
    /\ fault = NoFault
    /\ h.ticks < MaxBusTicks
    /\ Becomes([Ppu_tick_until_ppustatus_change(BusMachine)
                    EXCEPT !.h.ticks = @ + 1, !.h.act = "wait"])
    /\ UNCHANGED rom

BusNext ==
    \/ \E addr \in BusReadAddrs : BusRead(addr)
    \/ \E w \in BusWrites : BusWrite(w[1], w[2])
    \/ BusWait

SpecBus == BusInit /\ [][BusNext]_vars

\* the k-th latest access to the PPU ports (0: the latest)
Port(k) == h.trail[Len(h.trail) - k]

IsStatusRead(e) == e.op = "read" /\ e.addr = 8194
IsAddrWrite(e) == e.op = "write" /\ e.addr = 8198

\* C5: a CPU read of $2002 returns the PPUSTATUS from before the read, clears
\* bit 7, leaves bits 6 and 5 and clears the write toggle, whatever it was; the
\* next $2006 write then sets the high byte of v (masked to 6 bits), the one
\* after it the low byte
C5_StatusReadResetsToggle ==
    /\ (h.act = "read" /\ IsStatusRead(Port(0))) =>
           /\ Port(0).val = h.pre.ppu.ppustatus
           /\ ppu.ppustatus = h.pre.ppu.ppustatus % 128
           /\ ~ppu.write_latch
           /\ ppu = [h.pre.ppu EXCEPT !.ppustatus = @ % 128, !.write_latch = FALSE]
    /\ (h.act = "write" /\ Len(h.trail) >= 2 /\ IsStatusRead(Port(1)) /\ IsAddrWrite(Port(0))) =>
           /\ ppu.ppuaddr \div 256 = Port(0).val % 64
           /\ ppu.ppuaddr % 256 = h.pre.ppu.ppuaddr % 256
    /\ (Len(h.trail) >= 3 /\ IsStatusRead(Port(2)) /\ IsAddrWrite(Port(1))
            /\ IsAddrWrite(Port(0))) =>
           ppu.ppuaddr = (Port(1).val % 64) * 256 + Port(0).val

\* $2002 was read with the toggle set and bits 7 and 6 of PPUSTATUS set, and
\* two writes to $2006 followed
C5_Witness ==
    /\ Len(h.trail) = 3
    /\ IsStatusRead(Port(2)) /\ Port(2).w /\ Port(2).val = 192
    /\ IsAddrWrite(Port(1)) /\ Port(1).val = 197
    /\ IsAddrWrite(Port(0)) /\ Port(0).val = 63
    /\ ppu.ppuaddr = 1343
    /\ ppu.ppustatus = 64

-----------------------------------------------------------------------------
(* Single instructions: from power-on a program stores the operand M where   *)
(* the addressing mode will read it, loads X, Y, the carry and A, and runs   *)
(* the instruction                                                           *)

AdcOpcodes == {105, 101, 117, 109, 125, 121, 97, 113}
SbcOpcodes == {233, 229, 245, 237, 253, 249, 225, 241}
BitOpcodes == {36, 44}

ByteSamples == {0, 1, 64, 79, 80, 127, 128, 176, 192, 255}

\* ADC #M for every A, M and carry; every other opcode on the samples
AluCases ==
    [op : {105}, a : Byte, m : Byte, c : BOOLEAN]
        \cup [op : (AdcOpcodes \cup SbcOpcodes \cup BitOpcodes) \ {105},
              a : ByteSamples, m : ByteSamples, c : BOOLEAN]

\* LDA #value ; STA addr (absolute)
StoreByte(addr, value) == <<169, value, 141, addr % 256, addr \div 256>>

\* the program of case k: X = 5, Y = 7; the zero-page operand is $10, the
\* absolute operand $0210, the pointer of the indirect modes is $0340
AluProgram(k) ==
    LET mode == decode(k.op).addr
        place ==
            CASE mode = "immediate" -> <<>>
              [] mode = "zeropage_val" -> StoreByte(16, k.m)
              [] mode = "zeropage_x_val" -> StoreByte(16 + 5, k.m)
              [] mode = "absolute_val" -> StoreByte(528, k.m)
              [] mode = "absolute_x_val" -> StoreByte(528 + 5, k.m)
              [] mode = "absolute_y_val" -> StoreByte(528 + 7, k.m)
              [] mode = "indirect_x_val" ->
                    StoreByte(832, k.m) \o StoreByte(32 + 5, 64) \o StoreByte(33 + 5, 3)
              [] OTHER ->
                    StoreByte(832 + 7, k.m) \o StoreByte(32, 64) \o StoreByte(33, 3)
        instr ==
            CASE mode = "immediate" -> <<k.op, k.m>>
              [] mode \in {"zeropage_val", "zeropage_x_val"} -> <<k.op, 16>>
              [] mode \in {"absolute_val", "absolute_x_val", "absolute_y_val"} ->
                    <<k.op, 16, 2>>
              [] OTHER -> <<k.op, 32>>
    IN  place \o <<162, 5, 160, 7>> \o (IF k.c THEN <<56>> ELSE <<24>>)
              \o <<169, k.a>> \o instr

AluInit ==
    /\ \E k \in AluCases : rom = Cart(AluProgram(k), 0, 0)
    /\ cpu = Cpu0(FALSE, FALSE)
    /\ ppu = Ppu0
    /\ ctl = Ctl0
    /\ apu = Apu0
    /\ h = H0
    /\ fault = NoFault

SpecAlu == AluInit /\ [][Next]_vars

\* the operands of the instruction the last step executed
A_in == h.pre.cpu.a
M_in == h.step.value
C_in == BoolInt(h.pre.cpu.c)

\* C6: for all A, M and carry-in C, ADC in every addressing mode leaves
\* A = (A + M + C) mod 256, C = (A + M + C > $FF),
\* V = ((A xor result) and (M xor result) and $80) # 0, Z = (A = 0), N = bit 7 of A
C6_Adc ==
    h.step.opcode \in AdcOpcodes =>
        LET sum == A_in + M_in + C_in
            result == sum % 256
        IN  /\ M_in \in Byte
            /\ cpu.a = result
            /\ cpu.c = (sum > 255)
            /\ cpu.v = (BitAnd(BitAnd(BitXor(A_in, result), BitXor(M_in, result)), 128) # 0)
            /\ cpu.z = (result = 0)
            /\ cpu.n = Bit(result, 7)

\* ADC (zp),Y has added $50 + $50 with the carry set: A = $A1, V and N set
C6_Witness ==
    /\ h.step.opcode = 113
    /\ A_in = 80 /\ M_in = 80 /\ C_in = 1
    /\ cpu.a = 161 /\ cpu.v /\ cpu.n /\ ~cpu.c /\ ~cpu.z

\* C7: for all A, M and carry-in C, SBC with operand M produces the same A, C,
\* V, Z and N as ADC with operand (M xor $FF) and the same carry-in
C7_SbcIsAdcOfComplement ==
    h.step.opcode \in SbcOpcodes =>
        LET adc == ADC(PreMachine, BitXor(M_in, 255))
        IN  /\ cpu.a = adc.m.cpu.a
            /\ cpu.c = adc.m.cpu.c
            /\ cpu.v = adc.m.cpu.v
            /\ cpu.z = (adc.val = 0)
            /\ cpu.n = Bit(adc.val, 7)

\* C8: for all A and M, BIT sets Z = ((A and M) = 0), N = bit 7 of M,
\* V = bit 6 of M and leaves A, X, Y, C and memory unchanged
C8_Bit ==
    h.step.opcode \in BitOpcodes =>
        /\ cpu.z = (BitAnd(A_in, M_in) = 0)
        /\ cpu.n = Bit(M_in, 7)
        /\ cpu.v = Bit(M_in, 6)
        /\ cpu.a = h.pre.cpu.a
        /\ cpu.x = h.pre.cpu.x
        /\ cpu.y = h.pre.cpu.y
        /\ cpu.c = h.pre.cpu.c
        /\ cpu.ram = h.pre.cpu.ram

-----------------------------------------------------------------------------
(* Stack programs: from power-on a program sets SP, pushes with PHA and PHP, *)
(* changes A and the flags, and pulls with the matching PLA and PLP; or it   *)
(* runs into a BRK whose handler does the same and returns with RTI          *)

\* pushes in one program
MaxPushes == 3

\* starting values of SP, the wrap from $00 to $FF among them
SpStarts == {0, 1, 2, 253, 255}

\* instructions that set flags: none ; SEC ; SED, CLI ; LDA #$50, ADC #$50
\* (V and N) ; LDA #0 (Z)
FlagSnippets == {<<>>, <<56>>, <<248, 88>>, <<169, 80, 105, 80>>, <<169, 0>>}

\* what a program pushes: A = v with PHA, or the flags after snippet f with PHP
PushKinds ==
    [k : {"PHA"}, v : {0, 129, 255}, f : {<<>>}]
        \cup [k : {"PHP"}, v : {0}, f : FlagSnippets]

\* the code that makes push e, and the code of its matching pull
PushCode(e) == IF e.k = "PHA" THEN <<169, e.v, 72>> ELSE e.f \o <<8>>
PullCode(e) == IF e.k = "PHA" THEN <<104>> ELSE <<40>>

RECURSIVE PushesCode(_, _)
PushesCode(es, n) == IF n = 0 THEN <<>> ELSE PushesCode(es, n - 1) \o PushCode(es[n])

RECURSIVE PullsCode(_, _)
PullsCode(es, n) == IF n = 0 THEN <<>> ELSE PullCode(es[n]) \o PullsCode(es, n - 1)

\* between the pushes and the pulls: nothing, or LDA #$50 ; ADC #$50 ; SEC ;
\* SED ; CLI, or LDA #0 ; CLC
Clobbers == {<<>>, <<169, 80, 105, 80, 56, 248, 88>>, <<169, 0, 24>>}

PushSequences(max) == UNION {[1..n -> PushKinds] : n \in 0..max}

\* LDX #sp ; TXS
SetSp(sp) == <<162, sp, 154>>

\* pushes, a clobber, the matching pulls in reverse order
RoundTrip(es, clobber) ==
    PushesCode(es, Len(es)) \o clobber \o PullsCode(es, Len(es))

\* a push and pull program
StackCart(sp, es, clobber) == Cart(SetSp(sp) \o RoundTrip(es, clobber), 0, 0)

\* a program that sets flags and runs into BRK (followed by its padding byte,
\* a NOP and an unimplemented opcode); the IRQ handler makes one round trip
\* and returns with RTI
BrkCart(sp, f, es, clobber) ==
    LET main == SetSp(sp) \o f \o <<0, 234, 234, 255>>
    IN  Cart(main \o RoundTrip(es, clobber) \o <<64>>, 0, Len(main))

StackCarts ==
    {StackCart(sp, es, clobber) :
        sp \in SpStarts, es \in PushSequences(MaxPushes) \ {<<>>}, clobber \in Clobbers}
    \cup {BrkCart(sp, f, es, clobber) :
        sp \in SpStarts, f \in FlagSnippets, es \in PushSequences(1),
        clobber \in Clobbers}

StackInit ==
    /\ rom \in StackCarts
    /\ cpu = Cpu0(FALSE, FALSE)
    /\ ppu = Ppu0
    /\ ctl = Ctl0
    /\ apu = Apu0
    /\ h = H0
    /\ fault = NoFault

SpecStack == StackInit /\ [][Next]_vars

\* C9: whatever was pushed with PHA (or PHP) from any starting SP, wrap from
\* $00 to $FF included, the matching PLA (or PLP) recovers it, latest first,
\* and restores SP to its value from before the push; PLP recovers exactly the
\* N, V, D, I, Z, C that PHP pushed
C9_PushPullRoundTrip ==
    /\ (h.step.opcode = 104 /\ h.step.popped.kind = "PHA") =>
           /\ cpu.a = h.step.popped.a
           /\ cpu.sp = h.step.popped.sp
    /\ (h.step.opcode = 40 /\ h.step.popped.kind = "PHP") =>
           /\ Flags(cpu) = h.step.popped.f
           /\ cpu.sp = h.step.popped.sp
    /\ (h.step.opcode = 72 /\ h.shadow # <<>>) =>
           cpu.sp = (h.shadow[Len(h.shadow)].sp - 1) % 256
    /\ (h.step.opcode = 8 /\ h.shadow # <<>>) =>
           /\ cpu.sp = (h.shadow[Len(h.shadow)].sp - 1) % 256
           /\ MemGet(cpu.ram, 256 + h.pre.cpu.sp) = StatusByte(h.pre.cpu, 1)

\* the last of three pulls has recovered the byte pushed first at SP = $00,
\* over other contents of A, and SP is back at $00
C9_Witness ==
    /\ h.step.opcode = 104
    /\ h.step.popped.kind = "PHA"
    /\ h.step.popped.sp = 0
    /\ h.pre.cpu.sp = 255
    /\ cpu.sp = 0
    /\ cpu.a = 129
    /\ h.pre.cpu.a # 129
    /\ h.shadow = <<>>

\* C10: BRK at address p pushes p + 2, then the status with bits 4 and 5 set,
\* sets I and loads PC from the IRQ vector; the RTI that finds the stack as
\* BRK left it restores N, V, D, I, Z, C, sets PC = p + 2 and returns SP to
\* its value from before the BRK
C10_BrkRti ==
    /\ h.step.opcode = 0 =>
           LET c == h.pre.cpu
           IN  /\ MemGet(cpu.ram, 256 + c.sp) = (c.pc + 2) \div 256
               /\ MemGet(cpu.ram, 256 + ((c.sp - 1) % 256)) = (c.pc + 2) % 256
               /\ MemGet(cpu.ram, 256 + ((c.sp - 2) % 256)) = StatusByte(c, 1)
               /\ cpu.sp = (c.sp - 3) % 256
               /\ cpu.i
               /\ cpu.pc = rom.irq
               /\ [Flags(cpu) EXCEPT !.i = c.i] = Flags(c)
    /\ (h.step.opcode = 64 /\ h.step.popped.kind = "BRK") =>
           /\ Flags(cpu) = h.step.popped.f
           /\ cpu.pc = h.step.popped.pc + 2
           /\ cpu.sp = h.step.popped.sp

\* RTI has returned from the handler of a BRK whose pushes wrapped SP from $00
\* to $FF: I is clear again as before the BRK, the flags the handler changed
\* are restored
C10_Witness ==
    /\ h.step.opcode = 64
    /\ h.step.popped.kind = "BRK"
    /\ h.step.popped.sp = 1
    /\ cpu.sp = 1
    /\ h.pre.cpu.i /\ ~cpu.i
    /\ Flags(h.pre.cpu) # Flags(cpu)
    /\ cpu.d


-----------------------------------------------------------------------------
(* The CPU memory map seen from the bus: reads and writes (Cpu.read,         *)
(* Cpu.write) over the whole map, RAM, the PPU ports and their mirrors,      *)
(* OAM-DMA, the APU and controller range and the unmapped range below $8000  *)

\* bus accesses in one run
MaxMemOps == 3

\* RAM $0200; the PPU ports $2000, $2001, $2003..$2006, the mirrors $200B of
\* $2003 and $3FF8 of $2000; $4015; the unmapped $4020, $6000 and $7FFF
MemReadAddrs == {512, 8192, 8193, 8195, 8196, 8197, 8198, 8203, 16376,
                 16405, 16416, 24576, 32767}

\* RAM $0200 and $02FF; OAM-DMA of pages $02, $0A, $20 and $FF; PPUCTRL,
\* PPUMASK (rendering off), OAMADDR and OAMDATA; $4018, $401F, $4020, $7FFF
MemWrites == {<<512, 7>>, <<767, 9>>,
              <<16404, 2>>, <<16404, 10>>, <<16404, 32>>, <<16404, 255>>,
              <<8192, 4>>, <<8193, 6>>, <<8195, 5>>, <<8196, 9>>,
              <<16408, 1>>, <<16415, 255>>, <<16416, 1>>, <<32767, 1>>}

\* the variables become machine t after access acc, which is recorded even
\* when the call raised
Accessed(t, acc) ==
    IF t.fault # NoFault
    THEN /\ fault' = t.fault
         /\ h' = [h EXCEPT !.last = acc, !.before = h.last, !.act = acc.op,
                           !.pre = [cpu |-> cpu, ppu |-> ppu, ctl |-> ctl, apu |-> apu]]
         /\ UNCHANGED <<cpu, ppu, ctl, apu>>
    ELSE /\ cpu' = t.cpu
         /\ ppu' = t.ppu
         /\ ctl' = t.ctl
         /\ apu' = t.apu
         /\ h' = [t.h EXCEPT !.last = acc, !.before = h.last, !.act = acc.op,
                             !.ops = @ + 1]
         /\ fault' = NoFault

\* the access that a read returning r makes
read_access(r, addr) ==
    [op |-> "read", addr |-> addr, val |-> 0,
     ret |-> IF r.m.fault # NoFault THEN -1 ELSE r.val]

\* a read whose call gave r
MemReadDone(r, addr) == Accessed(r.m, read_access(r, addr))

MemRead(addr) ==
    /\ fault = NoFault
    /\ h.ops < MaxMemOps
    /\ MemReadDone(Cpu_read(BusMachine, addr), addr)
    /\ UNCHANGED rom

MemWrite(addr, value) ==
    /\ fault = NoFault
    /\ h.ops < MaxMemOps
    /\ Accessed(Cpu_write(BusMachine, addr, value),
                [op |-> "write", addr |-> addr, val |-> value, ret |-> -1])
    /\ UNCHANGED rom

MemNext ==
    \/ \E addr \in MemReadAddrs : MemRead(addr)
    \/ \E w \in MemWrites : MemWrite(w[1], w[2])

SpecMem == BusInit /\ [][MemNext]_vars

\* the latest access was a write of OAM-DMA page `page`
DmaWritten(page) == h.last.op = "write" /\ h.last.addr = 16404 /\ h.last.val = page

\* C11: for every page in 0..$FF a CPU write of it to $4014 completes without
\* error, leaves OAM[i] equal to the byte the bus reads at page * 256 + i for
\* every i in 0..255 (OAMADDR being 0), and advances the clock by 513 cycles
C11_OamDma ==
    \A page \in Byte :
        (DmaWritten(page) /\ h.pre.ppu.oamaddr = 0) =>
            /\ fault = NoFault
            /\ \A i \in 0..255 :
                   MemGet(ppu.oam, i) = Cpu_read(PreMachine, page * 256 + i).val
            /\ cpu.clock = h.pre.cpu.clock + 513

\* the latest access was a CPU write, or a CPU read, at an address in addrs
WroteAt(addrs) == h.last.op = "write" /\ h.last.addr \in addrs
ReadAt(addrs) == h.last.op = "read" /\ h.last.addr \in addrs

\* C15: a CPU write of any value to an unmapped address below $8000
\* ($4018-$401F, $4020-$7FFF) raises no error and leaves CPU RAM, the PPU
\* state with OAM, and the controller state unchanged
C15_UnmappedWrite ==
    WroteAt(16408..32767) =>
        /\ fault = NoFault
        /\ cpu.ram = h.pre.cpu.ram
        /\ ppu = h.pre.ppu
        /\ ctl = h.pre.ctl

\* C16: a CPU read of $4015, or of an unused address in $4020-$7FFF, returns 0,
\* raises no error and changes no emulator state
C16_QuietRead ==
    ReadAt({16405} \cup (16416..32767)) =>
        /\ fault = NoFault
        /\ h.last.ret = 0
        /\ <<cpu, ppu, ctl, apu>> = <<h.pre.cpu, h.pre.ppu, h.pre.ctl, h.pre.apu>>

\* the CPU addresses of the PPU ports other than $2002 and $2007, mirrors
\* included
OtherPorts == {a \in 8192..16383 : a % 8 \notin {2, 7}}

\* C17: a CPU read of a PPU port other than $2002 and $2007 ($2000, $2001,
\* $2003..$2006 and their mirrors up to $3FFF) returns 0, raises no error and
\* changes no PPU state, whatever was written to those ports before
C17_OtherPortRead ==
    ReadAt(OtherPorts) =>
        /\ fault = NoFault
        /\ h.last.ret = 0
        /\ ppu = h.pre.ppu

\* C18: a CPU write of val to $2004 never raises an error; it stores val at
\* OAM[OAMADDR] and increments OAMADDR by 1 modulo 256, every other OAM byte
\* unchanged
C18_OamDataWrite ==
    WroteAt({8196}) =>
        /\ fault = NoFault
        /\ ppu.oam = MemSet(h.pre.ppu.oam, h.pre.ppu.oamaddr, h.last.val)
        /\ ppu.oamaddr = (h.pre.ppu.oamaddr + 1) % 256

-----------------------------------------------------------------------------
(* The PPU memory map: writes and reads through Ppu.write and Ppu.read, in   *)
(* any order, on cartridges of either mirroring                              *)

\* accesses of the PPU memory map in one run
MaxVramOps == 3

\* nametable addresses and their images $1000 above, up to $2EFF and $3EFF;
\* the palette entries 0, 4, 12 and their aliases 16, 20, 28, plain and through
\* the mirrors at $3F20 and $3FE0
VramAddrs == {8197, 12293, 9221, 13317, 11013, 15109, 12031, 16127,
              16128, 16144, 16132, 16148, 16140, 16156, 16176, 16352}

\* the bytes written
VramValues == {7, 9}

VramInit ==
    /\ rom \in {ProgSprite, [ProgSprite EXCEPT !.vertical_mirroring = TRUE]}
    /\ cpu = Cpu0(TRUE, FALSE)
    /\ ppu = Ppu0
    /\ ctl = Ctl0
    /\ apu = Apu0
    /\ h = H0
    /\ fault = NoFault

\* a read of the PPU memory map whose call gave r
PpuReadDone(r, addr) == Accessed(r.m, [read_access(r, addr) EXCEPT !.op = "ppu_read"])

PpuRead(addr) ==
    /\ fault = NoFault
    /\ h.ops < MaxVramOps
    /\ PpuReadDone(Ppu_read(BusMachine, addr), addr)
    /\ UNCHANGED rom

PpuWrite(addr, value) ==
    /\ fault = NoFault
    /\ h.ops < MaxVramOps
    /\ Accessed(Ppu_write(BusMachine, addr, value),
                [op |-> "ppu_write", addr |-> addr, val |-> value, ret |-> -1])
    /\ UNCHANGED rom

VramNext ==
    \/ \E addr \in VramAddrs : PpuRead(addr)
    \/ \E addr \in VramAddrs, value \in VramValues : PpuWrite(addr, value)

SpecVram == VramInit /\ [][VramNext]_vars

\* the latest access read the PPU memory map right after a write to it
ReadAfterWrite == h.last.op = "ppu_read" /\ h.before.op = "ppu_write"

\* a and b are palette addresses in $3F00..$3FFF whose offsets in the 32-byte
\* palette are 4j and 16 + 4j, one each
PaletteAliases(a, b) ==
    /\ a \in 16128..16383 /\ b \in 16128..16383
    /\ \E j \in 0..3 : {a % 32, b % 32} = {4 * j, 16 + 4 * j}

\* C13: a value written through the PPU memory map to $3F10 + 4j (in any
\* 32-byte mirror within $3F00-$3FFF) is the value then read at $3F00 + 4j,
\* and a value written to $3F00 + 4j is read at $3F10 + 4j
C13_PaletteAlias ==
    (ReadAfterWrite /\ PaletteAliases(h.before.addr, h.last.addr)) =>
        /\ fault = NoFault
        /\ h.last.ret = h.before.val

\* a is in $3000..$3EFF and b is a - $1000, or the other way round
NametableMirrors(a, b) ==
    \/ a \in 12288..16127 /\ b = a - 4096
    \/ b \in 12288..16127 /\ a = b - 4096

\* C14: for every a in $3000-$3EFF a write through the PPU memory map at a is
\* observed by a read at a - $1000 and a write at a - $1000 by a read at a,
\* under both mirroring modes
C14_NametableMirror ==
    (ReadAfterWrite /\ NametableMirrors(h.before.addr, h.last.addr)) =>
        /\ fault = NoFault
        /\ h.last.ret = h.before.val

-----------------------------------------------------------------------------
(* The controller port: button events from the front end                     *)
(* (Controllers.set_button) in any order with the CPU's writes of $4016 and  *)
(* reads of $4016 and $4017                                                  *)

\* reads of one port after a latch, $4016 writes and button events in one run
MaxPadReads == 9
MaxPadWrites == 3
MaxPadEvents == 3

\* the buttons the front end presses and releases: A and Right of player 1,
\* B of player 2
PadButtons == {<<0, 1>>, <<7, 1>>, <<1, 2>>}

\* the bytes written to $4016
PadWrites == {0, 1, 2}

\* h.pad after a read of addr
pad_read(o, addr) ==
    IF addr = 16406 THEN [o EXCEPT !.n1 = @ + 1, !.fresh = FALSE]
    ELSE [o EXCEPT !.n2 = @ + 1, !.fresh = FALSE]

\* h.pad after a write of value to $4016 that found the button states s1, s2
pad_write(o, value, s1, s2) ==
    IF o.prev /\ ~Bit(value, 0)
    THEN [o EXCEPT !.prev = FALSE, !.fresh = TRUE, !.latched = TRUE,
                   !.s1 = s1, !.s2 = s2, !.n1 = 0, !.n2 = 0, !.writes = @ + 1]
    ELSE [o EXCEPT !.prev = Bit(value, 0), !.fresh = FALSE, !.writes = @ + 1]

\* a read of a controller port whose call gave r
PadReadDone(r, addr) ==
    Becomes([r.m EXCEPT !.h.last = read_access(r, addr),
                        !.h.act = "read",
                        !.h.pad = pad_read(@, addr)])

PadRead(addr) ==
    /\ fault = NoFault
    /\ (IF addr = 16406 THEN h.pad.n1 ELSE h.pad.n2) < MaxPadReads
    /\ PadReadDone(Cpu_read(BusMachine, addr), addr)
    /\ UNCHANGED rom

PadWrite(value) ==
    /\ fault = NoFault
    /\ h.pad.writes < MaxPadWrites
    /\ Becomes([Cpu_write(BusMachine, 16406, value)
                    EXCEPT !.h.last = [op |-> "write", addr |-> 16406,
                                       val |-> value, ret |-> -1],
                           !.h.act = "write",
                           !.h.pad = pad_write(@, value, ctl.controller_1_state,
                                               ctl.controller_2_state)])
    /\ UNCHANGED rom

PadButton(button, pressed, player) ==
    /\ fault = NoFault
    /\ h.pad.events < MaxPadEvents
    /\ Becomes([set_button(BusMachine, button, pressed, player)
                    EXCEPT !.h.act = "button",
                           !.h.pad.events = @ + 1,
                           !.h.pad.fresh = FALSE])
    /\ UNCHANGED rom

PadNext ==
    \/ \E addr \in {16406, 16407} : PadRead(addr)
    \/ \E value \in PadWrites : PadWrite(value)
    \/ \E b \in PadButtons, pressed \in BOOLEAN : PadButton(b[1], pressed, b[2])

SpecPad == BusInit /\ [][PadNext]_vars

\* the two shift registers of controllers record c
ShiftRegisters(c) == <<c.controller_1_shift_register, c.controller_2_shift_register>>

\* what the n-th read (n = 1, 2, ...) after a latch of button state s returns
PadBit(s, n) == IF n <= 8 THEN (s \div (2 ^ (n - 1))) % 2 ELSE 1

\* C12: the shift registers are loaded only by a $4016 write with bit 0 clear
\* right after one with bit 0 set; after it the next 8 reads of $4016 ($4017)
\* return bits 0..7 of controller 1's (2's) buttons as of that write, A, B,
\* Select, Start, Up, Down, Left, Right, and every later read returns 1,
\* whatever button events and reads of the other port come in between
C12_ControllerLatch ==
    /\ (h.act = "write" /\ h.pad.fresh) =>
           ShiftRegisters(ctl) = <<h.pre.ctl.controller_1_state, h.pre.ctl.controller_2_state>>
    /\ (h.act = "write" /\ ~h.pad.fresh) => ShiftRegisters(ctl) = ShiftRegisters(h.pre.ctl)
    /\ h.act = "button" => ShiftRegisters(ctl) = ShiftRegisters(h.pre.ctl)
    /\ (h.act = "read" /\ h.last.addr = 16406) =>
           /\ h.pad.latched => h.last.ret = PadBit(h.pad.s1, h.pad.n1)
           /\ ctl.controller_2_shift_register = h.pre.ctl.controller_2_shift_register
    /\ (h.act = "read" /\ h.last.addr = 16407) =>
           /\ h.pad.latched => h.last.ret = PadBit(h.pad.s2, h.pad.n2)
           /\ ctl.controller_1_shift_register = h.pre.ctl.controller_1_shift_register
    /\ fault = NoFault

\* A and Right were held at the latch, A was released after it, $4017 was read
\* in between, and the ninth read of $4016 returns 1
C12_Witness ==
    /\ h.act = "read" /\ h.last.addr = 16406
    /\ h.pad.latched /\ h.pad.s1 = 129
    /\ ctl.controller_1_state = 128
    /\ h.pad.n1 = 9 /\ h.pad.n2 > 0
    /\ h.last.ret = 1


-----------------------------------------------------------------------------
(* Two consoles side by side on the same cartridge, one built with           *)
(* sleep_cpu = True (the variables) and one with sleep_cpu = False           *)
(* (h.twin.slow).  Each is run as Nes.run_until_next_vblank_start runs it,   *)
(* to the step in which vblank starts; h.twin.goal counts these vblank       *)
(* starts, and starts and seen are, for each console, the vblank starts it   *)
(* has reached and the values its $2002 reads have returned.                 *)

\* vblank starts to which both consoles are run
MaxTwinFrames == 2

\* loop: INC $10 ; BNE loop ; JMP loop ; nmi: RTI
ProgCount == Cart(<<230, 16, 208, 252, 76, 0, 128, 64>>, 7, 7)
\* LDA #$80 ; STA $2000 ; loop: LDX $11 ; JMP loop ; nmi: LDA $2002 ; INC $11 ; RTI
ProgNmiCount ==
    Cart(<<169, 128, 141, 0, 32, 166, 17, 76, 5, 128, 173, 2, 32, 230, 17, 64>>, 10, 10)

TwinPrograms == {ProgIdle, ProgNmiIdle, ProgNmiCount, ProgCount}

\* the vblank starts a console has reached, after a step that found the PPU as
\* before and left machine t
twin_starts(n, before, t) == IF ~before.vblank /\ t.ppu.vblank THEN n + 1 ELSE n

\* the values a console's $2002 reads have returned, after a step that left
\* machine t
twin_seen(seen, t) ==
    IF t.h.step.reads2002 > 0 THEN Append(seen, t.h.step.value) ELSE seen

TwinInit ==
    /\ rom \in TwinPrograms
    /\ cpu = Cpu0(TRUE, FALSE)
    /\ ppu = Ppu0
    /\ ctl = Ctl0
    /\ apu = Apu0
    /\ h = [H0 EXCEPT !.twin =
                [goal |-> 1,
                 fast |-> [starts |-> 0, seen |-> <<>>],
                 slow |-> [cpu |-> Cpu0(FALSE, FALSE), ppu |-> Ppu0, ctl |-> Ctl0,
                           apu |-> Apu0, h |-> H0, fault |-> NoFault,
                           starts |-> 0, seen |-> <<>>]]]
    /\ fault = NoFault

\* the console without acceleration, as a machine
SlowMachine ==
    [cpu |-> h.twin.slow.cpu, ppu |-> h.twin.slow.ppu, ctl |-> h.twin.slow.ctl,
     apu |-> h.twin.slow.apu, h |-> h.twin.slow.h, fault |-> h.twin.slow.fault]

\* the accelerated console has made a step that left machine t
TwinFastDone(t) ==
    IF t.fault # NoFault
    THEN /\ fault' = t.fault
         /\ UNCHANGED <<cpu, ppu, ctl, apu, h>>
    ELSE /\ cpu' = t.cpu
         /\ ppu' = t.ppu
         /\ ctl' = t.ctl
         /\ apu' = t.apu
         /\ h' = [t.h EXCEPT !.twin.fast =
                                 [starts |-> twin_starts(@.starts, ppu, t),
                                  seen |-> twin_seen(@.seen, t)]]
         /\ fault' = NoFault

\* the console without acceleration has made a step that left machine t
TwinSlowDone(t) ==
    /\ h' = IF t.fault # NoFault
            THEN [h EXCEPT !.twin.slow.fault = t.fault]
            ELSE [h EXCEPT !.twin.slow =
                               [cpu |-> t.cpu, ppu |-> t.ppu, ctl |-> t.ctl,
                                apu |-> t.apu, h |-> t.h, fault |-> NoFault,
                                starts |-> twin_starts(@.starts, @.ppu, t),
                                seen |-> twin_seen(@.seen, t)]]
    /\ UNCHANGED <<cpu, ppu, ctl, apu, fault>>

TwinRunning == fault = NoFault /\ h.twin.slow.fault = NoFault

\* one call of Cpu.process_instruction in the accelerated console
TwinFast ==
    /\ TwinRunning
    /\ h.twin.fast.starts < h.twin.goal
    /\ TwinFastDone(process_instruction(Machine))
    /\ UNCHANGED rom

\* one call of Cpu.process_instruction in the console without acceleration
TwinSlow ==
    /\ TwinRunning
    /\ h.twin.fast.starts = h.twin.goal
    /\ h.twin.slow.starts < h.twin.goal
    /\ TwinSlowDone(process_instruction(SlowMachine))
    /\ UNCHANGED rom

\* both consoles are at the same vblank start
TwinAtVblankStart ==
    /\ TwinRunning
    /\ h.twin.fast.starts = h.twin.goal
    /\ h.twin.slow.starts = h.twin.goal

\* the front end calls run_until_next_vblank_start again
TwinNextFrame ==
    /\ TwinAtVblankStart
    /\ h.twin.goal < MaxTwinFrames
    /\ h' = [h EXCEPT !.twin.goal = @ + 1]
    /\ UNCHANGED <<rom, cpu, ppu, ctl, apu, fault>>

TwinNext == TwinFast \/ TwinSlow \/ TwinNextFrame

SpecTwin == TwinInit /\ [][TwinNext]_vars

\* what the claim observes of a console: the CPU registers and flags, CPU RAM,
\* the PPU registers, VRAM, palette and OAM, and the values of its $2002 reads
TwinObserved(c, p, seen) ==
    [pc |-> c.pc, sp |-> c.sp, a |-> c.a, x |-> c.x, y |-> c.y, flags |-> Flags(c),
     ram |-> c.ram,
     ppuctrl |-> p.ppuctrl, ppumask |-> p.ppumask, ppustatus |-> p.ppustatus,
     oamaddr |-> p.oamaddr, scroll_x |-> p.scroll_x, scroll_y |-> p.scroll_y,
     ppuaddr |-> p.ppuaddr,
     vram |-> p.vram, palette_ram |-> p.palette_ram, oam |-> p.oam,
     seen |-> seen]

\* C20: emulation with idle-loop acceleration is observationally identical to
\* emulation without it: at every vblank start of the same frame number both
\* consoles have the same CPU registers and flags, CPU RAM, PPU registers, VRAM,
\* palette and OAM, and have seen the same values from their $2002 reads
C20_SleepEquivalence ==
    TwinAtVblankStart =>
        TwinObserved(cpu, ppu, h.twin.fast.seen)
            = TwinObserved(h.twin.slow.cpu, h.twin.slow.ppu, h.twin.slow.seen)
-----------------------------------------------------------------------------
(* The console built with sleep_cpu = True on cartridges whose loops store   *)
(* to memory, push, or pass a branch that is not taken                       *)

\* loop: PHA ; PLA ; BEQ loop ; nmi: RTI
ProgPushLoop == Cart(<<72, 104, 240, 252, 64>>, 4, 4)
\* loop: STA $10 ; BNE loop ; JMP loop ; nmi: RTI
ProgStoreLoop == Cart(<<133, 16, 208, 252, 76, 0, 128, 64>>, 7, 7)
\* loop: BEQ loop ; BNE loop ; nmi: RTI
ProgUntaken == Cart(<<240, 254, 208, 252, 64>>, 4, 4)
\* loop: INC $0010 ; BNE loop ; JMP loop ; nmi: RTI
ProgIncAbs == Cart(<<238, 16, 0, 208, 251, 76, 0, 128, 64>>, 8, 8)
\* loop: JSR sub ; CLC ; BCC loop ; sub: RTS ; nmi: RTI
ProgJsrLoop == Cart(<<32, 6, 128, 24, 144, 250, 96, 64>>, 7, 7)

LoopPrograms == {ProgIdle, ProgCount, ProgPushLoop, ProgStoreLoop, ProgUntaken,
                 ProgIncAbs, ProgJsrLoop}

LoopInit ==
    /\ rom \in LoopPrograms
    /\ cpu = Cpu0(TRUE, FALSE)
    /\ ppu = Ppu0
    /\ ctl = Ctl0
    /\ apu = Apu0
    /\ h = H0
    /\ fault = NoFault

SpecLoop == LoopInit /\ [][Next]_vars

\* the latest step executed an instruction and returned
Executed == h.act = "step" /\ fault = NoFault /\ h.step.opcode # -1

\* the registers and flags that on_branch_check_loop compares
LoopTuple(c) == <<c.pc, c.sp, c.a, c.x, c.y, c.n, c.v, c.d, c.i, c.z, c.c>>

\* the latest step executed an instruction that stores to memory: a store, a
\* shift, rotate, increment or decrement of memory, a push
StoredToMemory ==
    /\ Executed
    /\ \/ decode(h.step.opcode).mn \in {"STA", "STX", "STY", "PHA", "PHP", "JSR", "BRK"}
       \/ /\ decode(h.step.opcode).mn \in {"INC", "DEC", "ASL", "LSR", "ROL", "ROR"}
          /\ decode(h.step.opcode).addr # "-"

\* the latest step executed a branch that was not taken (no cartridge here has
\* a branch to the instruction after it)
BranchNotTaken ==
    /\ Executed
    /\ decode(h.step.opcode).addr = "rel"
    /\ ~h.step.nmi
    /\ cpu.pc = h.pre.cpu.pc + 2

\* a step slept only if the registers and flags it left are those the cache
\* held when the step began
SleptOnEqualTuple == h.step.slept => h.pre.cpu.branch_loop_cache = LoopTuple(cpu)

\* every instruction that stores to memory leaves the cache cleared
StoreClearsCache == StoredToMemory => cpu.branch_loop_cache = <<>>

\* every branch that is not taken leaves the cache cleared
UntakenClearsCache == BranchNotTaken => cpu.branch_loop_cache = <<>>

\* C21: the fast-forward happens only when the registers and flags equal the
\* cached ones, and the cache is cleared by every instruction that stores to
\* memory (stores, read-modify-write instructions in every addressing mode,
\* pushes) and by every branch that is not taken
C21_LoopCache == SleptOnEqualTuple /\ StoreClearsCache /\ UntakenClearsCache
-----------------------------------------------------------------------------
(* The run loop with a front end (nes_impl.py, Nes.run and                   *)
(* Nes.run_until_next_vblank_start): the console is run to the next vblank   *)
(* start, then the renderer is handed the PPU and the front end is polled    *)
(* for input.  The renderer and the front end are collaborators outside the  *)
(* console: the renderer reads the PPU and changes nothing, the front end    *)
(* sets buttons.                                                             *)

\* what a call of run_until_next_vblank_start returned with: ppu.vblank and
\* the row at the return, the vblank starts and ends during the call, and
\* ppu.vblank when it was called
NoReturn == [vblank |-> FALSE, row |-> -1, starts |-> -1, ends |-> -1, began |-> FALSE]

\* h.run: at: the while loop the call is in; phase: the loop that made the
\* latest step; renders: invocations of the renderer so far; starts, ends:
\* vblank starts and ends since the call began; began: ppu.vblank when the
\* call began; ret: what the latest call returned with
RunObs0 == [at |-> "first", phase |-> "none", renders |-> 0, starts |-> 0, ends |-> 0,
            began |-> FALSE, ret |-> NoReturn]

\* the key events that one poll of the front end delivers: none, or button A
\* of player 1 down or up
UiEvents == {<<>>, <<0, TRUE>>, <<0, FALSE>>}

\* cartridges of the runs with a front end
RunPrograms == {ProgIdle, ProgNmiIdle, ProgPoll, ProgNmiWork, ProgDma}

RunInit ==
    /\ rom \in RunPrograms
    /\ \E sleep_cpu \in BOOLEAN : cpu = Cpu0(sleep_cpu, FALSE)
    /\ ppu = Ppu0
    /\ ctl = Ctl0
    /\ apu = Apu0
    /\ h = [H0 EXCEPT !.run = RunObs0]
    /\ fault = NoFault

\* a run-to-vblank routine in the other order: a first loop that steps while
\* ppu.vblank is false, then a second that steps while it is true
run_until_vblank_end(at, vblank) ==
    IF at = "first" /\ ~vblank THEN "first"
    ELSE IF vblank THEN "second"
    ELSE "return"

\* Nes.run_until_next_vblank_start, its control: with the call in loop at and
\* ppu.vblank as given, the loop that makes the next step, or the return
run_until_next_vblank_start(at, vblank) ==
    IF at = "first" /\ vblank THEN "first"
    ELSE IF ~vblank THEN "second"
    ELSE "return"

\* observation: loop at has made a step that left machine t
run_stepped(t, at) ==
    [t EXCEPT !.h.run.at = at, !.h.run.phase = at,
              !.h.run.starts = @ + BoolInt(t.h.step.vstart),
              !.h.run.ends = @ + BoolInt(t.h.step.vend)]

\* one iteration of a while loop of run_until_next_vblank_start
RunStep ==
    /\ fault = NoFault
    /\ ppu.frame_count < MaxFrames
    /\ run_until_next_vblank_start(h.run.at, ppu.vblank) # "return"
    /\ Becomes(run_stepped(process_instruction(Machine),
                           run_until_next_vblank_start(h.run.at, ppu.vblank)))
    /\ UNCHANGED rom

\* Ui.handle_events delivering key event ev
handle_events(m, ev) == IF ev = <<>> THEN m ELSE set_button(m, ev[1], ev[2], 1)

\* observation: the call has returned and the renderer has been invoked
run_rendered(m) ==
    [m EXCEPT !.h.act = "render",
              !.h.run = [at |-> "first", phase |-> "none", renders |-> @.renders + 1,
                         starts |-> 0, ends |-> 0, began |-> m.ppu.vblank,
                         ret |-> [vblank |-> m.ppu.vblank, row |-> m.ppu.row,
                                  starts |-> @.starts, ends |-> @.ends,
                                  began |-> @.began]]]

\* run_until_next_vblank_start returns; Nes.run invokes the renderer, draws and
\* polls the front end
RunRender ==
    /\ fault = NoFault
    /\ run_until_next_vblank_start(h.run.at, ppu.vblank) = "return"
    /\ \E ev \in UiEvents : Becomes(handle_events(run_rendered(Machine), ev))
    /\ UNCHANGED rom

RunNext == RunStep \/ RunRender

SpecRun == RunInit /\ [][RunNext]_vars

\* the rows during which ppu.vblank is set
VblankRows == (VBLANK_START_ROW + 1)..VBLANK_END_ROW

C23_PhaseOrder ==
    /\ h.run.phase = "first" => ~h.pre.ppu.vblank
    /\ h.run.phase = "second" => h.pre.ppu.vblank
    /\ h.run.renders > 0 /\ ~h.run.ret.began =>
           ~h.run.ret.vblank /\ h.run.ret.ends = 1
-----------------------------------------------------------------------------
(* One instruction at a time: a cartridge that holds one official opcode     *)
(* with the operand bytes $10, $00 at the reset address, stepped from        *)
(* power-on                                                                  *)

\* calls of Cpu.process_instruction in such a run
MaxOpSteps == 2

\* the official opcodes: those that the match statement gives an arm
OfficialOpcodes == {op \in 0..255 : decode(op).mn \notin {"JAM", "NotImplemented"}}

\* opcode op ; .byte $10, $00 ; nmi, irq: at the byte after them
OpCart(op) == Cart(<<op, 16, 0>>, 3, 3)

OpInit ==
    /\ rom \in {OpCart(op) : op \in OfficialOpcodes}
    /\ \E sleep_cpu \in BOOLEAN : cpu = Cpu0(sleep_cpu, FALSE)
    /\ ppu = Ppu0
    /\ ctl = Ctl0
    /\ apu = Apu0
    /\ h = H0
    /\ fault = NoFault

\* observation: one more call made
op_stepped(t) == [t EXCEPT !.h.ticks = @ + 1]

\* one call of Cpu.process_instruction
OpStep ==
    /\ fault = NoFault
    /\ h.ticks < MaxOpSteps
    /\ Becomes(op_stepped(process_instruction(Machine)))
    /\ UNCHANGED rom

OpNext == OpStep

SpecOp == OpInit /\ [][OpNext]_vars

\* the base cycle count of each official opcode in the 6502 timing table (no
\* page-crossing or branch-taken penalty)
StdCycles(op) ==
    CASE op \in
        {9, 10, 16, 24, 41, 42, 48, 56, 73, 74, 80, 88, 105, 106, 112, 120,
         136, 138, 144, 152, 154, 160, 162, 168, 169, 170, 176, 184, 186,
         192, 200, 201, 202, 208, 216, 224, 232, 233, 234, 240, 248} -> 2
      [] op \in
        {5, 8, 36, 37, 69, 72, 76, 101, 132, 133, 134, 164, 165, 166, 196,
         197, 228, 229} -> 3
      [] op \in
        {13, 21, 25, 29, 40, 44, 45, 53, 57, 61, 77, 85, 89, 93, 104, 109,
         117, 121, 125, 140, 141, 142, 148, 149, 150, 172, 173, 174, 180,
         181, 182, 185, 188, 189, 190, 204, 205, 213, 217, 221, 236, 237,
         245, 249, 253} -> 4
      [] op \in
        {6, 17, 38, 49, 70, 81, 102, 108, 113, 153, 157, 177, 198, 209, 230,
         241} -> 5
      [] op \in
        {1, 14, 22, 32, 33, 46, 54, 64, 65, 78, 86, 96, 97, 110, 118, 129,
         145, 161, 193, 206, 214, 225, 238, 246} -> 6
      [] op \in
        {0, 30, 62, 94, 126, 222, 254} -> 7
      [] OTHER -> 0

\* C24: for each of the 151 official opcodes the cycles that a step ticks for
\* the instruction equal the opcode's base cycle count in the 6502 timing
\* table; every executed instruction advances the clock by at least 2 cycles
C24_BaseCycles ==
    Executed /\ ~h.step.nmi /\ h.step.opcode \in OfficialOpcodes =>
        /\ h.step.cycles = StdCycles(h.step.opcode)
        /\ h.step.cycles >= 2
-----------------------------------------------------------------------------
(* Indexed addressing at the ends of the address space: cartridges that set  *)
(* an index register and load or store through absolute,X, absolute,Y,       *)
(* (indirect),Y and zero page,X                                              *)

\* index register values: without and with a carry out of the address
IndexValues == {0, 1, 32}

\* LDA #9 ; STA $00 ; LDA #7 ; STA $10 : the bytes that the wrapped addresses
\* $0000 and $0010 hold
AddrData == StoreByte(0, 9) \o StoreByte(16, 7)

\* JMP to the instruction itself, which is at offset at
JmpSelf(at) == <<76, at % 256, 128 + (at \div 256)>>

\* code ; JMP * ; nmi: RTI
AddrCart(code) == Cart(code \o JmpSelf(Len(code)) \o <<64>>, Len(code) + 3, Len(code) + 3)

AddrCarts ==
    {AddrCart(AddrData \o <<162, v, 189, 255, 255>>) : v \in IndexValues}      \* LDX #v ; LDA $FFFF,X
    \cup {AddrCart(AddrData \o <<160, v, 185, 255, 255>>) : v \in IndexValues} \* LDY #v ; LDA $FFFF,Y
    \cup {AddrCart(AddrData \o <<162, v, 181, 240>>) : v \in IndexValues}      \* LDX #v ; LDA $F0,X
    \cup {AddrCart(AddrData \o <<162, v, 157, 255, 7>>) : v \in IndexValues}   \* LDX #v ; STA $07FF,X
    \* LDA #$FF ; STA $20 ; STA $21 ; LDY #v ; LDA ($20),Y
    \cup {AddrCart(AddrData \o <<169, 255, 133, 32, 133, 33, 160, v, 177, 32>>) :
             v \in IndexValues}

AddrInit ==
    /\ rom \in AddrCarts
    /\ \E sleep_cpu \in BOOLEAN : cpu = Cpu0(sleep_cpu, FALSE)
    /\ ppu = Ppu0
    /\ ctl = Ctl0
    /\ apu = Apu0
    /\ h = H0
    /\ fault = NoFault

SpecAddr == AddrInit /\ [][Next]_vars

\* the byte at offset k after the opcode of the latest step
OperandByte(k) == rom_prg((h.pre.cpu.pc + k - 32768) % rom_prg_len)

\* the 16-bit little-endian word in zero page at zp, as the latest step found it
ZeroPageWord(zp) ==
    MemGet(h.pre.cpu.ram, zp) + 256 * MemGet(h.pre.cpu.ram, (zp + 1) % 256)

\* the effective address of the indexed load of the latest step, wrapped as
\* the 6502 wraps it
EffectiveAddress ==
    CASE h.step.opcode = 181 -> (OperandByte(1) + h.pre.cpu.x) % 256
      [] h.step.opcode = 189 ->
            (OperandByte(1) + 256 * OperandByte(2) + h.pre.cpu.x) % 65536
      [] h.step.opcode = 185 ->
            (OperandByte(1) + 256 * OperandByte(2) + h.pre.cpu.y) % 65536
      [] OTHER -> (ZeroPageWord(OperandByte(1)) + h.pre.cpu.y) % 65536

\* the byte that RAM or PRG ROM held at addr when the latest step began
ByteAt(addr) ==
    IF addr < 8192 THEN MemGet(h.pre.cpu.ram, addr % 2048)
    ELSE rom_prg((addr - 32768) % rom_prg_len)

\* the latest step was LDA zp,X, LDA abs,X, LDA abs,Y or LDA (zp),Y
IndexedLoad == Executed /\ ~h.step.nmi /\ h.step.opcode \in {181, 189, 185, 177}

\* C25: the effective address of every addressing mode is a 16-bit value:
\* absolute,X, absolute,Y and (indirect),Y wrap modulo 65536 and zero page
\* indexed modes modulo 256, so an indexed load reads the byte at the wrapped
\* address and the address-range assertion of the bus never fails
C25_AddressWraps ==
    /\ fault # "AssertionError"
    /\ IndexedLoad => cpu.a = ByteAt(EffectiveAddress)
-----------------------------------------------------------------------------
(* The PPU clock driven directly: Ppu._tick_clock with ticks of several      *)
(* sizes, and the row-by-row fast-forward Ppu.tick_until_ppustatus_change    *)

\* calls of _tick_clock in a run, and the frames a run goes through
MaxTickOps == 4
MaxTickFrames == 4

\* dots per call of _tick_clock: one dot, a row and one dot less or more, four
\* rows and a dot
TickSizes == {1, 339, 340, 341, 1361}

\* Ppu._tick_clock(dots)
Tick(dots) ==
    /\ fault = NoFault
    /\ h.ops < MaxTickOps
    /\ ppu.frame_count < MaxTickFrames
    /\ Accessed(Ppu_tick_clock(BusMachine, dots),
                [op |-> "tick", addr |-> 0, val |-> dots, ret |-> -1])
    /\ UNCHANGED rom

\* Ppu.tick_until_ppustatus_change()
TickSleep ==
    /\ fault = NoFault
    /\ ppu.frame_count < MaxTickFrames
    /\ Becomes([Ppu_tick_until_ppustatus_change(BusMachine)
                    EXCEPT !.h.ticks = @ + 1, !.h.act = "sleep"])
    /\ UNCHANGED rom

TickNext == (\E dots \in TickSizes : Tick(dots)) \/ TickSleep

SpecTick == BusInit /\ [][TickNext]_vars

\* the latest action was a call of _tick_clock that returned
Ticked == h.act = "tick" /\ fault = NoFault

\* C26: after any sequence of clock ticks row is in [0,261] and col in
\* [0,340]; a row finishes exactly once per 341 dots and a frame is 262 rows
\* of 341 dots less the skipped dot of the frames with the odd-frame skip:
\* each tick advances the dot counter (frame_count * 262 + row) * 341 + col,
\* skipped dots not counted, by the dots ticked
C26_RowsOf341 ==
    [][/\ ppu'.row \in 0..261
       /\ ppu'.col \in 0..340
       /\ Ticked' => DotCounter341' - DotCounter341 = h'.last.val]_vars

\* the dot position of PPU record p with rows as long as the code makes them
DotPosition(p) == RowsDone(p) * COLUMNS + p.col

\* C29: frame_count increments by exactly 1 each time the row wraps from 261
\* to 0, and the extra one-dot increment of col is applied on exactly every
\* second wrap, those that end an odd-numbered frame (frame_count odd before
\* the wrap), for ticks of any size and for the row-by-row fast-forward
C29_FrameWrap ==
    [][fault' = NoFault =>
         /\ ppu'.frame_count = ppu.frame_count + BoolInt(ppu'.row < ppu.row)
         /\ h'.skips = h.skips + BoolInt(ppu'.row < ppu.row /\ ppu.frame_count % 2 = 1)
         /\ h'.act = "tick" =>
                DotPosition(ppu') - DotPosition(ppu) = h'.last.val + h'.skips - h.skips
         /\ h'.act = "sleep" => ppu'.col = h'.skips - h.skips]_vars

\* the clock has passed the ends of frames 0, 1 and 2, the end of frame 1 in
\* a fast-forward that left the extra dot in col, and a tick has been made
\* since
C29_Witness ==
    /\ ppu.frame_count = 3
    /\ h.skips = 1
    /\ h.ticks >= 2
    /\ Ticked
    /\ h.last.val = 341
\* the latest action was a fast-forward that returned
Slept == h.act = "sleep" /\ fault = NoFault

\* C39: from every reachable PPU state tick_until_ppustatus_change
\* terminates after finishing at most 262 rows, and its internal assertions
\* hold: the row has changed after the first tick and col is at most 1 after
\* every row it finishes
C39_FastForwardEnds ==
    /\ fault # "Unterminated"
    /\ fault # "AssertionError"
    /\ Slept =>
           /\ RowsDone(ppu) - RowsDone(h.pre.ppu) \in 1..TOTAL_ROWS
           /\ ppu.col <= 1

\* a fast-forward called late in row 261 of an odd frame has finished that
\* row, taken the extra dot of the wrap into col, and gone on through rows 0
\* to 240
C39_Witness ==
    /\ Slept
    /\ h.pre.ppu.row = TOTAL_ROWS - 1
    /\ h.pre.ppu.col > 1
    /\ h.pre.ppu.odd_frame
    /\ ppu.col = 1
    /\ RowsDone(ppu) - RowsDone(h.pre.ppu) = VBLANK_START_ROW + 2
-----------------------------------------------------------------------------
(* The PPU ports driven from the CPU bus in longer sequences: reads and      *)
(* writes of $2000-$2007 through Cpu.read and Cpu.write                      *)

\* accesses in a run
MaxPortOps == 5

PortRead(addr) ==
    /\ fault = NoFault
    /\ h.ops < MaxPortOps
    /\ MemReadDone(Cpu_read(BusMachine, addr), addr)
    /\ UNCHANGED rom

PortWrite(addr, value) ==
    /\ fault = NoFault
    /\ h.ops < MaxPortOps
    /\ Accessed(Cpu_write(BusMachine, addr, value),
                [op |-> "write", addr |-> addr, val |-> value, ret |-> -1])
    /\ UNCHANGED rom

\* the latest access was a write of port addr, or a read of it, that returned
WrotePort(addr) == h.last.op = "write" /\ h.last.addr = addr /\ fault = NoFault
ReadPort(addr) == h.last.op = "read" /\ h.last.addr = addr /\ fault = NoFault

\* writes to $2005 and $2006 in any order, and reads of $2002 between them
ScrollWrites == {<<8197, 20>>, <<8197, 197>>, <<8198, 63>>, <<8198, 197>>}

ScrollNext ==
    \/ PortRead(8194)
    \/ \E w \in ScrollWrites : PortWrite(w[1], w[2])

SpecScroll == BusInit /\ [][ScrollNext]_vars

\* C27: $2005 and $2006 share the write toggle w: in any interleaving of
\* writes to the two ports every write toggles w; a write made with w = 0 sets
\* scroll_x ($2005) or the high byte of v masked to 6 bits, the low byte kept
\* ($2006); a write made with w = 1 sets scroll_y ($2005) or the low byte of
\* v, the high byte kept ($2006)
C27_SharedToggle ==
    /\ WrotePort(8197) \/ WrotePort(8198) => ppu.write_latch = ~h.pre.ppu.write_latch
    /\ WrotePort(8197) /\ ~h.pre.ppu.write_latch =>
           ppu = [h.pre.ppu EXCEPT !.scroll_x = h.last.val, !.write_latch = TRUE]
    /\ WrotePort(8197) /\ h.pre.ppu.write_latch =>
           ppu = [h.pre.ppu EXCEPT !.scroll_y = h.last.val, !.write_latch = FALSE]
    /\ WrotePort(8198) /\ ~h.pre.ppu.write_latch =>
           ppu = [h.pre.ppu EXCEPT !.ppuaddr = (h.last.val % 64) * 256 + (@ % 256),
                                   !.write_latch = TRUE]
    /\ WrotePort(8198) /\ h.pre.ppu.write_latch =>
           ppu = [h.pre.ppu EXCEPT !.ppuaddr = (@ \div 256) * 256 + h.last.val,
                                   !.write_latch = FALSE]

\* $2006, $2005, $2005, $2006 were written in turn: the toggle made the first
\* write the high byte of v, the second scroll_y, the third scroll_x and the
\* fourth the low byte of v
C27_Witness ==
    /\ WrotePort(8198)
    /\ h.before.op = "write" /\ h.before.addr = 8197 /\ h.before.val = 20
    /\ h.pre.ppu.write_latch
    /\ ppu.scroll_x = 20
    /\ ppu.scroll_y = 197
    /\ ppu.ppuaddr = 63 * 256 + 197
    /\ h.ops = 4

\* accesses in a run of the data port
MaxDataOps == 7

\* $2000 with the increment of 32, $2006 with bytes that make v $2020, $203F,
\* $3F20 or $3F3F, $2007
DataWrites == {<<8192, 4>>, <<8198, 32>>, <<8198, 63>>, <<8199, 7>>}

DataRead ==
    /\ fault = NoFault
    /\ h.ops < MaxDataOps
    /\ MemReadDone(Cpu_read(BusMachine, 8199), 8199)
    /\ UNCHANGED rom

DataWrite(addr, value) ==
    /\ fault = NoFault
    /\ h.ops < MaxDataOps
    /\ Accessed(Cpu_write(BusMachine, addr, value),
                [op |-> "write", addr |-> addr, val |-> value, ret |-> -1])
    /\ UNCHANGED rom

DataNext == DataRead \/ \E w \in DataWrites : DataWrite(w[1], w[2])

SpecData == BusInit /\ [][DataNext]_vars

\* the byte of PPU memory at addr, for addr in pattern memory, in the
\* nametables at $2000-$2FFF or in the palette, with PPU record p
PpuMemByte(p, addr) ==
    IF addr < 8192 THEN rom_chr(addr)
    ELSE IF addr < 12288 THEN MemGet(p.vram, nametable_vram_addr(addr))
    ELSE MemGet(p.palette_ram,
                IF addr % 32 >= 16 /\ addr % 4 = 0 THEN (addr % 32) - 16 ELSE addr % 32)

\* the latest access was a read of $2007, or a write of it, whether or not
\* it returned
DataReadCalled == h.last.op = "read" /\ h.last.addr = 8199
DataWriteCalled == h.last.op = "write" /\ h.last.addr = 8199

\* C28: each CPU read of $2007 returns the read buffer as it was before the
\* read, refills the buffer with the PPU-memory byte at v and then increments
\* v by 32 if PPUCTRL bit 2 is set and by 1 otherwise; each write of $2007
\* stores at v and increments v the same way
C28_DataPort ==
    /\ DataReadCalled =>
           /\ fault = NoFault
           /\ h.last.ret = h.pre.ppu.ppudata_read_buffer
           /\ ppu.ppudata_read_buffer = PpuMemByte(h.pre.ppu, h.pre.ppu.ppuaddr)
           /\ ppu.ppuaddr = h.pre.ppu.ppuaddr + (IF Bit(h.pre.ppu.ppuctrl, 2) THEN 32 ELSE 1)
    /\ DataWriteCalled =>
           /\ fault = NoFault
           /\ PpuMemByte(ppu, h.pre.ppu.ppuaddr) = h.last.val
           /\ ppu.ppuaddr = h.pre.ppu.ppuaddr + (IF Bit(h.pre.ppu.ppuctrl, 2) THEN 32 ELSE 1)
\* the data port at the top of the PPU address space: $2000 with the
\* increment of 32, $2006 with bytes that make v $3F3F, $3FFF, $FF3F or $FFFF
\* before the mask of the high byte, $2007
VaddrWrites == {<<8192, 4>>, <<8198, 63>>, <<8198, 255>>, <<8199, 7>>}

VaddrNext == DataRead \/ \E w \in VaddrWrites : DataWrite(w[1], w[2])

SpecVaddr == BusInit /\ [][VaddrNext]_vars

\* C38: after any sequence of $2006 writes and $2007 reads and writes, with
\* either increment size, the VRAM address v stays within [0,$3FFF], so every
\* $2007 access resolves to a mapped PPU memory region and never reaches the
\* invalid-PPU-address fault
C38_VramAddress ==
    /\ ppu.ppuaddr \in 0..16383
    /\ fault # "AssertionError"
-----------------------------------------------------------------------------
(* Writes to PPUCTRL, PPUMASK and PPUSCROLL in the middle of a frame: the    *)
(* ports written through Cpu.write, with fast-forwards to the next change of *)
(* PPUSTATUS or of vblank between the writes                                 *)

\* writes in a run
MaxMidOps == 4

\* $2001: background and sprites on, background only; $2000: nothing,
\* nametable 1, increment 32, NMI; $2005
MidWrites == {<<8193, 30>>, <<8193, 8>>,
              <<8192, 0>>, <<8192, 1>>, <<8192, 4>>, <<8192, 128>>,
              <<8197, 8>>}

MidWrite(addr, value) ==
    /\ fault = NoFault
    /\ h.ops < MaxMidOps
    /\ Accessed(Cpu_write(BusMachine, addr, value),
                [op |-> "write", addr |-> addr, val |-> value, ret |-> -1])
    /\ UNCHANGED rom

MidNext ==
    \/ \E w \in MidWrites : MidWrite(w[1], w[2])
    \/ BusWait

SpecMid == BusInit /\ [][MidNext]_vars

\* the latest action was a write of port addr that returned
MidWrote(addr) == h.act = "write" /\ WrotePort(addr)

\* the latest action was a write made while rendering (vblank clear and
\* background or sprites enabled) that changed a PPUCTRL bit other than bits 2
\* and 7 or a PPUMASK bit, or that wrote PPUSCROLL
MidFrameChange ==
    /\ ~h.pre.ppu.vblank
    /\ BitAnd(h.pre.ppu.ppumask, 24) # 0
    /\ \/ MidWrote(8192) /\ BitAnd(BitXor(h.pre.ppu.ppuctrl, h.last.val), 123) # 0
       \/ MidWrote(8193) /\ h.pre.ppu.ppumask # h.last.val
       \/ MidWrote(8197)

\* the write published a render boundary for its row while the registers
\* still had their old values
PublishedBefore ==
    h.step.boundary = [published |-> TRUE, row |-> h.pre.ppu.row,
                       ppuctrl |-> h.pre.ppu.ppuctrl, ppumask |-> h.pre.ppu.ppumask,
                       scroll_x |-> h.pre.ppu.scroll_x, scroll_y |-> h.pre.ppu.scroll_y]

\* the sprite zero hit location is the one computed from the registers as
\* they are after the write
Recomputed == ppu.sprite_zero_hit_loc = Ppu_calculate_sprite_zero_hit(ppu)

RowToPublish ==
    h.pre.ppu.row # h.pre.ppu.last_row_rendered /\ h.pre.ppu.row < VBLANK_END_ROW

-----------------------------------------------------------------------------
(* The sprite zero hit flag over whole frames: the clock ticked by rows      *)
(* (Ppu._tick_clock) or fast-forwarded (Ppu.tick_until_ppustatus_change),    *)
(* with reads of $2002 and writes of PPUMASK and PPUSCROLL through the bus   *)

\* bus accesses and ticks in a run, and its fast-forwards
MaxHitOps == 3
MaxHitWaits == 6

\* one row and a dot, three rows
HitTicks == {341, 1020}

\* $2001: background and sprites on, everything off; $2005
HitWrites == {<<8193, 30>>, <<8193, 0>>, <<8197, 8>>}

HitRead ==
    /\ fault = NoFault
    /\ h.ops < MaxHitOps
    /\ MemReadDone(Cpu_read(BusMachine, 8194), 8194)
    /\ UNCHANGED rom

HitWrite(addr, value) ==
    /\ fault = NoFault
    /\ h.ops < MaxHitOps
    /\ Accessed(Cpu_write(BusMachine, addr, value),
                [op |-> "write", addr |-> addr, val |-> value, ret |-> -1])
    /\ UNCHANGED rom

HitTick(dots) ==
    /\ fault = NoFault
    /\ h.ops < MaxHitOps
    /\ Accessed(Ppu_tick_clock(BusMachine, dots),
                [op |-> "tick", addr |-> 0, val |-> dots, ret |-> -1])
    /\ UNCHANGED rom

HitWait ==
    /\ fault = NoFault
    /\ h.ticks < MaxHitWaits
    /\ Becomes([Ppu_tick_until_ppustatus_change(BusMachine)
                    EXCEPT !.h.ticks = @ + 1, !.h.act = "wait"])
    /\ UNCHANGED rom

HitNext ==
    \/ HitRead
    \/ \E w \in HitWrites : HitWrite(w[1], w[2])
    \/ \E dots \in HitTicks : HitTick(dots)
    \/ HitWait

SpecHit == BusInit /\ [][HitNext]_vars

\* the latest action set PPUSTATUS bit 6, or cleared it
HitFlagSet == ~Bit(h.pre.ppu.ppustatus, 6) /\ Bit(ppu.ppustatus, 6)
HitFlagCleared == Bit(h.pre.ppu.ppustatus, 6) /\ ~Bit(ppu.ppustatus, 6)

\* C31: PPUSTATUS bit 6 changes from 0 to 1 only at the end of a visible row
\* (0-239) equal to the row of the stored predicted hit, at most once per
\* frame; once set it stays set, including across reads of $2002, until the
\* row-260 boundary, which clears bits 7, 6 and 5 together and deasserts the
\* NMI
C31_SpriteZeroFlag ==
    /\ HitFlagSet =>
           /\ h.act \in {"tick", "wait"}
           /\ ppu.sprite_zero_hit_loc[1] \in 0..239
           /\ FinishedRow(ppu.sprite_zero_hit_loc[1])
    /\ h.frame.hits <= 1
    /\ h.done.hits <= 1
    /\ HitFlagCleared => h.step.vend /\ CrossedRow260
    /\ h.step.vend =>
           /\ CrossedRow260
           /\ BitAnd(ppu.ppustatus, 160) = 0
           /\ ~ppu.nmi
           /\ ppu.row = VBLANK_END_ROW + 1 => ppu.ppustatus = 0

\* the flag was set at the end of the hit row, a read of $2002 returned it
\* and left it set, and the row-260 boundary of the same frame has just
\* cleared it
C31_Witness ==
    /\ h.frame.hits = 1
    /\ h.last.op = "read" /\ h.last.ret = 64
    /\ h.act = "wait"
    /\ HitFlagCleared
    /\ h.step.vend
    /\ ppu.row = VBLANK_END_ROW + 1
\* the latest action was a fast-forward that returned
WaitDone == h.act = "wait" /\ fault = NoFault

\* PPUSTATUS or the vblank flag differs from what it was at the call
StatusChanged ==
    ppu.vblank # h.pre.ppu.vblank \/ ppu.ppustatus # h.pre.ppu.ppustatus

\* with PPU record p outside vblank, the row of the stored predicted hit is
\* still to be finished in this frame and the flag is not set yet
HitPending(p) ==
    /\ ~Bit(p.ppustatus, 6)
    /\ p.sprite_zero_hit_loc[1] < VBLANK_START_ROW
    /\ p.row > VBLANK_END_ROW \/ p.sprite_zero_hit_loc[1] >= p.row

\* the row whose end brings the next change of PPUSTATUS or of the vblank
\* flag: row 260 during vblank; outside vblank the hit row if the hit is
\* pending, row 240 otherwise
NextChangeRow(p) ==
    IF p.vblank THEN VBLANK_END_ROW
    ELSE IF HitPending(p) THEN p.sprite_zero_hit_loc[1]
    ELSE VBLANK_START_ROW

\* the rows finished from the row of p up to the end of row target
RowsUntil(p, target) == ((target - p.row + TOTAL_ROWS) % TOTAL_ROWS) + 1

\* C34: the fast-forward stops at the earliest row boundary after the call at
\* which PPUSTATUS or the vblank flag differs from its value at the time of
\* the call (vblank start at row 240, clear at row 260, or sprite-0 set on the
\* predicted hit row): it never runs past such a change and never stops
\* before one
C34_EarliestChange ==
    WaitDone =>
        /\ StatusChanged
        /\ RowsDone(ppu) - RowsDone(h.pre.ppu)
               = RowsUntil(h.pre.ppu, NextChangeRow(h.pre.ppu))

\* a fast-forward called in the middle of a row, with the frame's hit
\* pending in a later row, has stopped at the end of the hit row
C34_Witness ==
    /\ WaitDone
    /\ HitFlagSet
    /\ h.pre.ppu.col > 0
    /\ h.pre.ppu.row < h.pre.ppu.sprite_zero_hit_loc[1]
    /\ ppu.row = ppu.sprite_zero_hit_loc[1] + 1
    /\ ~ppu.vblank
-----------------------------------------------------------------------------
(* The vblank flag, the NMI line and PPUSTATUS bit 7 in the runs of the      *)
(* whole console                                                             *)

\* C35: in every reachable state the vblank flag is true exactly when row is
\* in [241,260]; the NMI line is asserted only while vblank is true, and
\* PPUSTATUS bit 7 is set only while vblank is true
C35_VblankRows ==
    /\ ppu.vblank <=> ppu.row \in (VBLANK_START_ROW + 1)..VBLANK_END_ROW
    /\ ppu.nmi => ppu.vblank
    /\ Bit(ppu.ppustatus, 7) => ppu.vblank

\* the step that finished row 240 has just started vblank with the NMI
\* enabled, after a whole frame whose vblank ended at row 260
C35_Witness ==
    /\ h.step.vstart
    /\ h.done.valid
    /\ ppu.vblank
    /\ ppu.nmi
    /\ Bit(ppu.ppustatus, 7)
    /\ ppu.row = VBLANK_START_ROW + 1
-----------------------------------------------------------------------------
(* The sprite zero hit prediction (Ppu._calculate_sprite_zero_hit) over many *)
(* frames set up through the Ppu's interface: OAM filled by Ppu.oam_dma,     *)
(* PPUCTRL, PPUSCROLL, nametable bytes and PPUMASK written by                *)
(* Ppu.write_reg_from_cpu at power-on, then fast-forwards through the frame  *)
(* with a register write or another OAM transfer somewhere in between        *)

\* register writes and OAM transfers after the set-up, and fast-forwards
MaxPredictOps == 1
MaxPredictWaits == 3

\* CHR: tile 0 has its two top rows opaque, tile 1 the last pixel of its top
\* row only, tile 3 its second row only; every other tile is transparent
PredictChr == MemSet(MemSet(MemSet(MemSet(EmptyMem, 0, 255), 1, 255), 16, 1), 49, 255)

PredictCart(vertical) == [ProgIdle EXCEPT !.chr = PredictChr, !.vertical_mirroring = vertical]

\* sprite zero as OAM bytes 0..3 (Y - 1, tile, flags, X): on the left edge, at
\* X = 5, 8 and 12, one tile down, with its only pixel at X = 254, 255 and
\* 256, flipped with its only pixel at X = 254, at X = 255, at Y = 240, and at
\* Y = 239 with pixels in row 239 and in row 240
SpriteSamples == {<<0, 0, 0, 0>>, <<0, 0, 0, 5>>, <<0, 0, 0, 8>>, <<0, 0, 0, 12>>,
                  <<7, 0, 0, 0>>,
                  <<0, 1, 0, 247>>, <<0, 1, 0, 248>>, <<0, 1, 0, 249>>, <<0, 1, 64, 254>>,
                  <<0, 0, 0, 255>>, <<239, 0, 0, 0>>, <<238, 3, 0, 0>>, <<238, 0, 0, 0>>}

\* PPUCTRL: each nametable, and 8x16 sprites
CtrlSamples == {0, 1, 2, 3, 32}

\* PPUMASK: background and sprites with and without the left column, and
\* background alone
MaskSamples == {30, 24, 8}

\* scroll_x and scroll_y
ScrollSamples == {<<0, 0>>, <<3, 0>>, <<253, 0>>, <<0, 239>>}

\* the 256 bytes of an OAM transfer whose first four are sprite
OamOf(sprite) ==
    MemSet(MemSet(MemSet(MemSet(EmptyMem, 0, sprite[1]), 1, sprite[2]), 2, sprite[3]),
           3, sprite[4])

\* the frames set up: sprite zero, PPUCTRL, the scroll, whether the first two
\* tiles of the nametable at $2000 are made transparent, PPUMASK
PredictSetups ==
    [sprite : SpriteSamples, ctrl : CtrlSamples, scroll : ScrollSamples,
     tiles : BOOLEAN, mask : MaskSamples]

\* the Ppu after the set-up s at power-on: oam_dma stores the sprite; with
\* rendering off the writes of $2000, of $2005 twice and of $2001 store the
\* registers and leave the write toggle clear; the writes $2006 <- $20,
\* $2006 <- $00, $2007 <- 2, $2007 <- 2 store two bytes at the start of the
\* nametable at $2000 and leave v at $2002
PredictSetup(s) ==
    [Ppu0 EXCEPT !.oam = OamOf(s.sprite),
                 !.ppuctrl = s.ctrl,
                 !.scroll_x = s.scroll[1],
                 !.scroll_y = s.scroll[2],
                 !.vram = IF s.tiles
                          THEN MemSet(MemSet(@, nametable_vram_addr(8192), 2),
                                      nametable_vram_addr(8193), 2)
                          ELSE @,
                 !.ppuaddr = IF s.tiles THEN 8194 ELSE @,
                 !.ppumask = s.mask]

PredictInit ==
    /\ rom \in {PredictCart(FALSE), PredictCart(TRUE)}
    /\ cpu = Cpu0(TRUE, FALSE)
    /\ ctl = Ctl0
    /\ apu = Apu0
    /\ fault = NoFault
    /\ \E s \in PredictSetups : ppu = PredictSetup(s)
    /\ h = H0

\* $2005 while rendering, $2001 with the left column hidden and shown
PredictWrites == {<<8197, 8>>, <<8193, 24>>, <<8193, 30>>}

PredictWrite(addr, value) ==
    /\ fault = NoFault
    /\ h.ops < MaxPredictOps
    /\ Accessed(Ppu_write_reg_from_cpu(BusMachine, addr, value),
                [op |-> "write", addr |-> addr, val |-> value, ret |-> -1])
    /\ UNCHANGED rom

\* Ppu.oam_dma(data)
PredictDma(sprite) ==
    /\ fault = NoFault
    /\ h.ops < MaxPredictOps
    /\ Accessed(Ppu_oam_dma(BusMachine, OamOf(sprite)),
                [op |-> "dma", addr |-> 0, val |-> sprite[4], ret |-> -1])
    /\ UNCHANGED rom

PredictWait ==
    /\ fault = NoFault
    /\ h.ticks < MaxPredictWaits
    /\ Becomes([Ppu_tick_until_ppustatus_change(BusMachine)
                    EXCEPT !.h.ticks = @ + 1, !.h.act = "wait"])
    /\ UNCHANGED rom

PredictNext ==
    \/ \E w \in PredictWrites : PredictWrite(w[1], w[2])
    \/ \E sprite \in {<<0, 0, 0, 0>>, <<0, 0, 0, 5>>} : PredictDma(sprite)
    \/ PredictWait

SpecPredict == PredictInit /\ [][PredictNext]_vars

\* there is no predicted hit
NoHit(loc) == loc = SPRITE_ZERO_HIT_NONE

\* C32: for every PPU, OAM and VRAM state the sprite-0 prediction is either
\* 'no hit' or a coordinate (Y, X) with 0 <= Y < 240 and 0 <= X < 255, and it
\* is 'no hit' whenever PPUMASK bit 3 or bit 4 is clear, OAM[0] + 1 >= 240 or
\* OAM[3] >= 255; so is the prediction stored at the end of vblank or by a
\* write in the middle of the frame
C32_PredictionRange ==
    /\ \/ NoHit(Ppu_calculate_sprite_zero_hit(ppu))
       \/ /\ Ppu_calculate_sprite_zero_hit(ppu)[1] \in 0..239
          /\ Ppu_calculate_sprite_zero_hit(ppu)[2] \in 0..254
    /\ \/ ~Bit(ppu.ppumask, 3)
       \/ ~Bit(ppu.ppumask, 4)
       \/ MemGet(ppu.oam, 0) + 1 >= 240
       \/ MemGet(ppu.oam, 3) >= 255
       => NoHit(Ppu_calculate_sprite_zero_hit(ppu))
    /\ \/ NoHit(ppu.sprite_zero_hit_loc)
       \/ /\ ppu.sprite_zero_hit_loc[1] \in 0..239
          /\ ppu.sprite_zero_hit_loc[2] \in 0..254

\* the end of vblank has just stored a prediction at the last column that can
\* hit, X = 254
C32_Witness ==
    /\ h.step.vend
    /\ ppu.sprite_zero_hit_loc = <<1, 254>>
    /\ ppu.sprite_zero_hit_loc = Ppu_calculate_sprite_zero_hit(ppu)

\* sprite zero as _sprite_zero_hit_load_sprite loads it from the PPU as it is,
\* and the first background tile of the region around it
LoadedSprite == sprite_zero_hit_load_sprite(ppu)
FirstTileX == (ppu.scroll_x + LoadedSprite.x) \div 8
FirstTileY == (ppu.scroll_y + LoadedSprite.y) \div 8

\* the overlap pixels, as <<row, column>> within the sprite tile, that
\* _sprite_zero_hit_find_hit searches, and those it would search with the left
\* column shown (PPUMASK bits 1 and 2 set): every overlap of sprite and
\* background
OverlapSearched == sprite_tile_overlap(ppu, LoadedSprite, FirstTileX, FirstTileY)
OverlapAll ==
    sprite_tile_overlap([ppu EXCEPT !.ppumask = BitOr(@, 6)], LoadedSprite,
                        FirstTileX, FirstTileY)

\* background and sprites are enabled with the left column of one of them
\* hidden, and sprite zero is in bounds and not empty
LeftColumnHidden ==
    /\ BitAnd(ppu.ppumask, 24) = 24
    /\ BitAnd(ppu.ppumask, 6) # 6
    /\ LoadedSprite.ok

\* C33: when PPUMASK bits 1 and 2 are not both set, the prediction excludes
\* exactly the overlap pixels whose screen X is in [0,7]: the predicted hit
\* never has X < 8, and an opaque sprite-and-background overlap pixel at
\* screen X >= 8 remains eligible as the hit, for every sprite X and every
\* scroll_x
C33_LeftColumn ==
    LeftColumnHidden =>
        /\ NoHit(Ppu_calculate_sprite_zero_hit(ppu))
               \/ Ppu_calculate_sprite_zero_hit(ppu)[2] >= 8
        /\ OverlapSearched = {rc \in OverlapAll : LoadedSprite.x + rc[2] >= 8}

\* C36: whenever the PPU is outside vblank and the sprite-0 hit flag is clear,
\* the stored predicted hit coordinate equals the prediction computed from the
\* current PPUCTRL, PPUMASK, scroll, OAM and nametable contents, after any
\* sequence of PPU register writes and OAM-DMA transfers
C36_StoredPrediction ==
    ~ppu.vblank /\ ~Bit(ppu.ppustatus, 6) =>
        ppu.sprite_zero_hit_loc = Ppu_calculate_sprite_zero_hit(ppu)

\* the physical half of the nametable RAM that the background lookup of the
\* prediction reads for the tile at (tile_x, tile_y)
LookupHalf(p, tile_x, tile_y) ==
    IF pick_b(p, tile_x, tile_y) THEN NAMETABLE_B_VRAM_START ELSE NAMETABLE_A_VRAM_START

\* the logical nametable that holds the background tile at (tile_x, tile_y),
\* counted from the top left of the nametable that PPUCTRL bits 0 and 1
\* select: the neighbour to the right from tile column 32, the neighbour
\* below from tile row 30
LogicalNametable(p, tile_x, tile_y) ==
    2 * (((p.ppuctrl \div 2) + (tile_y \div 30)) % 2) + ((p.ppuctrl + (tile_x \div 32)) % 2)

\* the physical half that the PPU memory map gives logical nametable n, whose
\* first byte is at $2000 + $400 * n
MapHalf(n) == nametable_vram_addr(8192 + 1024 * n)

\* the tiles of the background region around sprite zero
RegionTiles ==
    {FirstTileX, FirstTileX + 1}
        \X {FirstTileY + y : y \in 0..(IF LoadedSprite.tall THEN 2 ELSE 1)}

\* C37: for both mirroring modes, every PPUCTRL nametable-select value and
\* every tile position, the physical nametable half (A or B) that the sprite-0
\* background lookup reads for a logical nametable is the same half that the
\* PPU memory map (nametable_vram_addr, used by $2007 reads and writes)
\* assigns to that logical nametable
C37_SameHalf ==
    \A t \in RegionTiles :
        LookupHalf(ppu, t[1], t[2]) = MapHalf(LogicalNametable(ppu, t[1], t[2]))
-----------------------------------------------------------------------------
(* TXS after loads that leave the flags describing another value than X      *)

\* calls of Cpu.process_instruction in such a run
MaxTxsSteps == 5

\* the values of X and of A
TxsSamples == {0, 1, 127, 128, 255}

\* SEC or CLC ; LDX #x ; LDA #a ; TXS ; NOP
TxsCart(carry, x, a) ==
    Cart(<<IF carry THEN 56 ELSE 24, 162, x, 169, a, 154, 234>>, 0, 0)

TxsInit ==
    /\ rom \in {TxsCart(carry, x, a) :
                    carry \in BOOLEAN, x \in TxsSamples, a \in TxsSamples}
    /\ cpu = Cpu0(FALSE, FALSE)
    /\ ppu = Ppu0
    /\ ctl = Ctl0
    /\ apu = Apu0
    /\ h = H0
    /\ fault = NoFault

\* one call of Cpu.process_instruction
TxsStep ==
    /\ fault = NoFault
    /\ h.ticks < MaxTxsSteps
    /\ Becomes(op_stepped(process_instruction(Machine)))
    /\ UNCHANGED rom

TxsNext == TxsStep

SpecTxs == TxsInit /\ [][TxsNext]_vars

\* the latest step executed TXS
TxsDone == h.step.opcode = 154 /\ fault = NoFault

\* C40: TXS copies X to SP and leaves all flags, A, X, Y and memory unchanged
C40_Txs ==
    TxsDone =>
        /\ cpu.sp = h.pre.cpu.x
        /\ Flags(cpu) = Flags(h.pre.cpu)
        /\ cpu.a = h.pre.cpu.a
        /\ cpu.x = h.pre.cpu.x
        /\ cpu.y = h.pre.cpu.y
        /\ cpu.ram = h.pre.cpu.ram
        /\ ppu.vram = h.pre.ppu.vram
        /\ ppu.palette_ram = h.pre.ppu.palette_ram
        /\ ppu.oam = h.pre.ppu.oam
=============================================================================
